---- MODULE Spec2Model ----
(***************************************************************************)
(* Event capture pipeline of cctv_ai: the Event Merger (app/event_merger)  *)
(* and the orchestrator's primary loop and idle-flush ticker (app/main).   *)
(*                                                                         *)
(* Time is counted in whole seconds.  Python's None is the empty sequence  *)
(* << >>, an optional value v is << v >>.                                  *)
(***************************************************************************)
EXTENDS Integers, Sequences, FiniteSets, TLC

\* ------------------------------------------------------------------ bounds
\* Last instant of the sequential merger runs (SpecMerger, SpecPair).
MaxTime == 14

\* Most pushes the caller feeds into one event in SpecMerger.
MaxBurst == 3

\* Timestamps of the calls made in any order are 0..MaxAnyTs.
MaxAnyTs == 8

\* Most pushes fed into the first and into the second event of SpecPair.
MaxFeed == 8
MaxFeedOther == 4

\* Spec: last value of the wall clock, and most detections the detector yields.
MaxClock == 5
MaxDet == 2

\* SpecClip: segments start at 0..MaxSegStart, requests lie in 0..MaxReqTs.
MaxSegStart == 6
MaxReqTs == 12

\* SpecDetector: last instant of the detector's clock, in units of the
\* fixed retry pause (0.2 s).
MaxDetClock == 8

\* SpecWatchdog: the time observed, in seconds.
MaxWdClock == 9

\* SpecWorker: the statements the spawning thread runs after the spawn.
MaxSpawnerSteps == 3

\* SpecRecorder: calls of stop() on one recorder.
MaxStopCalls == 4

\* SpecExternal: seconds counted while a caller waits for ffmpeg.
MaxExtWait == 3

\* SpecSampling: largest frame stride, reads of the capture, and boxes that
\* pass the filters in one frame.
MaxStride == 3
MaxFrames == 5
MaxBoxes == 2

\* SpecHousekeeping: last instant observed, in seconds.
MaxHkClock == 12

\* time.sleep(0.2) of the retry path, in those units.
RetryPause == 1

\* SpecDebounce: last instant, in tenths of a second, and most detections.
MaxFilterClock == 8
MaxFilterDet == 3

\* CONFIRM_FRAMES and CONFIRM_WINDOW defaults (main.py:142-143): 3 frames
\* within 0.8 s, the window in tenths of a second.
ConfirmFramesDefault == 3
ConfirmWindowTenths == 8

\* SEGMENT_SECONDS default (config.py:78).
SegmentSecondsDefault == 2

\* EventMerger.__init__ defaults: idle_end = 4.0 s, cooldown = 6.0 s.
IdleEndDefault == 4
CooldownDefault == 6

\* Detection classes (OBJECTS_OF_INTEREST); two are enough for a tie.
Classes == {"person", "dog"}

\* --------------------------------------------------- _ActiveEvent.counts
\* A Python dict keeps insertion order: counts is a sequence of
\* [cls, n] entries, in the order the keys were first inserted.

DictHas(counts, cls) == \E i \in 1..Len(counts) : counts[i].cls = cls

\* counts.get(cls, 0)
DictGet(counts, cls) ==
    IF DictHas(counts, cls)
    THEN LET i == CHOOSE k \in 1..Len(counts) : counts[k].cls = cls
         IN  counts[i].n
    ELSE 0

\* counts[cls] = v : an existing key keeps its place, a new key goes last.
DictPut(counts, cls, v) ==
    IF DictHas(counts, cls)
    THEN [i \in 1..Len(counts) |->
            IF counts[i].cls = cls THEN [cls |-> cls, n |-> v] ELSE counts[i]]
    ELSE Append(counts, [cls |-> cls, n |-> v])

\* ------------------------------------------------------------ _ActiveEvent
\* _ActiveEvent(start_ts=ts, last_ts=ts, last_det_ts=ts, counts={})
NewActiveEvent(ts) ==
    [start_ts |-> ts, last_ts |-> ts, last_det_ts |-> ts, counts |-> << >>]

\* _ActiveEvent.add
add(ev, cls, ts) ==
    [ev EXCEPT !.last_ts = ts,
               !.last_det_ts = ts,
               !.counts = DictPut(ev.counts, cls, DictGet(ev.counts, cls) + 1)]

\* max() that keeps the last of the maximal keys (mutation of DictMaxKey).
DictMaxKeyLast(counts) ==
    LET i == CHOOSE k \in 1..Len(counts) :
                 /\ \A j \in 1..Len(counts) : counts[j].n <= counts[k].n
                 /\ \A j \in (k + 1)..Len(counts) : counts[j].n < counts[k].n
    IN  counts[i].cls

\* max(counts, key=counts.get): the first key, in iteration order, whose
\* value no other key exceeds.
DictMaxKey(counts) ==
    LET i == CHOOSE k \in 1..Len(counts) :
                 /\ \A j \in 1..Len(counts) : counts[j].n <= counts[k].n
                 /\ \A j \in 1..(k - 1) : counts[j].n < counts[k].n
    IN  counts[i].cls

\* top_cls() that returns the smallest count (mutation of top_cls).
top_clsMin(ev) ==
    IF ev.counts = << >>
    THEN [cls |-> "unknown", count |-> 0]
    ELSE LET i == CHOOSE k \in 1..Len(ev.counts) :
                      \A j \in 1..Len(ev.counts) : ev.counts[k].n <= ev.counts[j].n
         IN  [cls |-> ev.counts[i].cls, count |-> ev.counts[i].n]

\* _ActiveEvent.top_cls
top_cls(ev) ==
    IF ev.counts = << >>
    THEN [cls |-> "unknown", count |-> 0]
    ELSE LET c == DictMaxKey(ev.counts)
         IN  [cls |-> c, count |-> DictGet(ev.counts, c)]

\* ------------------------------------------------------------- EventMerger
\* A merger is [idle_end, cooldown, active, cooldown_until]; active is
\* << >> (None) or << event >>.  A call returns [m |-> merger after the
\* call, ret |-> << >> or << [first, last, cls, count] >>].

\* EventMerger.__init__
NewMerger(idle_end, cooldown) ==
    [idle_end |-> idle_end, cooldown |-> cooldown,
     active |-> << >>, cooldown_until |-> 0]

\* The tuple (t_first, t_last, _EventOut(cls, count)) of a closed event.
Emission(ev) ==
    LET top == top_cls(ev)
    IN  [first |-> ev.start_ts, last |-> ev.last_det_ts,
         cls |-> top.cls, count |-> top.count]

\* push() without the cooldown gate (mutation of push).
pushNoGate(m, cls, ts) ==
    LET ev == IF m.active = << >> THEN NewActiveEvent(ts) ELSE m.active[1]
    IN  [m |-> [m EXCEPT !.active = << add(ev, cls, ts) >>], ret |-> << >>]

\* EventMerger.push
push(m, cls, ts) ==
    IF ts < m.cooldown_until /\ m.active = << >>
    THEN [m |-> m, ret |-> << >>]
    ELSE LET ev == IF m.active = << >> THEN NewActiveEvent(ts) ELSE m.active[1]
         IN  [m |-> [m EXCEPT !.active = << add(ev, cls, ts) >>], ret |-> << >>]

\* flush_due() that compares with > instead of >= (mutation of flush_due).
flush_dueStrict(m, now_ts) ==
    IF m.active = << >>
    THEN [m |-> m, ret |-> << >>]
    ELSE LET ev  == m.active[1]
             gap == now_ts - ev.last_det_ts
         IN  IF gap > m.idle_end
             THEN [m |-> [m EXCEPT !.active = << >>,
                                   !.cooldown_until = now_ts + m.cooldown],
                   ret |-> << Emission(ev) >>]
             ELSE [m |-> m, ret |-> << >>]

\* EventMerger.flush_due
flush_due(m, now_ts) ==
    IF m.active = << >>
    THEN [m |-> m, ret |-> << >>]
    ELSE LET ev  == m.active[1]
             gap == now_ts - ev.last_det_ts
         IN  IF gap >= m.idle_end
             THEN [m |-> [m EXCEPT !.active = << >>,
                                   !.cooldown_until = now_ts + m.cooldown],
                   ret |-> << Emission(ev) >>]
             ELSE [m |-> m, ret |-> << >>]

\* force_close() that does not arm the cooldown (mutation of force_close).
force_closeNoCooldown(m, now_ts) ==
    IF m.active = << >>
    THEN [m |-> m, ret |-> << >>]
    ELSE [m |-> [m EXCEPT !.active = << >>],
          ret |-> << Emission(m.active[1]) >>]

\* EventMerger.force_close
force_close(m, now_ts) ==
    IF m.active = << >>
    THEN [m |-> m, ret |-> << >>]
    ELSE [m |-> [m EXCEPT !.active = << >>,
                          !.cooldown_until = now_ts + m.cooldown],
          ret |-> << Emission(m.active[1]) >>]

\* ------------------------------------------------------------- variables
VARIABLES
    \* SpecMerger: one merger driven by a single caller
    m,            \* the EventMerger
    call,         \* the last call made: [op, cls, t, ret]
    lastPushTs,   \* timestamp of the last push (pushes are strictly increasing)
    pushed,       \* pushes accepted into the open event, per class
    emits,        \* emissions since the last accepted push
    scen,         \* progress along the end-to-end scenario (0..6), 9 when left
    \* SpecPair: two mergers, each building and closing one event
    pm,           \* the two EventMergers
    pfeed,        \* the classes pushed into each, in push order
    pout,         \* what each close returned: << >> or << emission >>
    \* Spec: the primary loop and the idle-flush ticker of run()
    clock,        \* time.time()
    heap,         \* the _ActiveEvent objects created so far; an id is an index
    mActive,      \* merger._active: 0 (None) or the id of the active event
    mCooldownUntil, \* merger._cooldown_until
    next_armed_ts,  \* run()'s next_armed_ts (end of the blackout)
    recent,       \* run()'s _recent: per class, the deque of recent timestamps
    stop_flush,   \* the stop_flush threading.Event
    pc,           \* per thread, the statement it is at
    loc,          \* per thread, its local variables
    raised,       \* the exception that left the primary loop ("": none)
    nDet,         \* detections the detector has yielded
    emitN,        \* per event id, how many calls returned an emission of it
    procN,        \* per event id, how many times process_emitted was entered
    handled,      \* per thread, its latest process_emitted call: the locals
                  \* t_first, t_last, now_ts, t0, t1, and what the call did
    pcfg,         \* the settings run() read from the environment
    \* SpecClip: one call of FFmpegRingBuffer.make_clip
    mc,           \* the call: its arguments, the buffer, its locals and outcome
    \* SpecDetector: stream_detect's read loop and the watchdog thread
    dcfg,         \* the detector's and the watchdog's configuration
    dclock,       \* time.time()
    dpc,          \* the statement stream_detect is at
    det,          \* the detector's fields and stream_detect's locals
    wd,           \* the watchdog thread: its statement and its locals
    dg,           \* observations: waits, reconnects, the last iteration
    \* SpecDebounce: the primary loop's blackout check and debounce
    flt,          \* clock, next_armed_ts, _recent, and the detections seen
    \* SpecWatchdog: the watchdog thread of run() and what it watches
    ww,
    \* SpecWorker: one per-event worker thread and the thread that spawned it
    wk,
    \* SpecShutdown: the end of run(): the loop's exit and the finally block
    sd,
    \* SpecRecorder: an FFmpegRingBuffer, its capture process and its caller
    rc,
    \* SpecExternal: the ffmpeg runs of one clip and the thread waiting on them
    xc,
    \* SpecSampling: stream_detect's path of a frame from the read to the yield
    fs,
    \* SpecHousekeeping: the primary loop's blackout check and housekeeping
    hk

mergerVars == << m, call, lastPushTs, pushed, emits, scen >>
pairVars == << pm, pfeed, pout >>
pipeVars == << clock, heap, mActive, mCooldownUntil, next_armed_ts, recent,
               stop_flush, pc, loc, raised, nDet, emitN, procN, handled, pcfg >>

clipVars == << mc >>

\* The variables of the specifications that came after the first three.
detVars == << dcfg, dclock, dpc, det, wd, dg >>
filterVars == << flt >>
lateVars == << ww, wk, sd, rc, xc, fs, hk >>
restVars == << clipVars, detVars, filterVars, lateVars >>

vars == << mergerVars, pairVars, pipeVars, restVars >>

\* The variables of a specification that is not running.
MergerIdle ==
    /\ m = NewMerger(IdleEndDefault, CooldownDefault)
    /\ call = [op |-> "init", cls |-> "", t |-> 0, ret |-> << >>]
    /\ lastPushTs = -1
    /\ pushed = [c \in Classes |-> 0]
    /\ emits = 0
    /\ scen = 9

PairIdle ==
    /\ pm = << >>
    /\ pfeed = << >>
    /\ pout = << >>

PipeIdle ==
    /\ clock = 0
    /\ heap = << >>
    /\ mActive = 0
    /\ mCooldownUntil = 0
    /\ next_armed_ts = 0
    /\ recent = << >>
    /\ stop_flush = FALSE
    /\ pc = << >>
    /\ loc = << >>
    /\ raised = ""
    /\ nDet = 0
    /\ emitN = << >>
    /\ procN = << >>
    /\ handled = << >>
    /\ pcfg = << >>

ClipIdle == mc = << >>

DetIdle ==
    /\ dcfg = << >>
    /\ dclock = 0
    /\ dpc = ""
    /\ det = << >>
    /\ wd = << >>
    /\ dg = << >>

FilterIdle == flt = << >>

LateIdle ==
    /\ ww = << >> /\ wk = << >> /\ sd = << >> /\ rc = << >> /\ xc = << >>
    /\ fs = << >> /\ hk = << >>

RestIdle == ClipIdle /\ DetIdle /\ FilterIdle /\ LateIdle

\* --------------------------------- SpecWorker: a per-event worker thread
\* _spawn_gemini_worker and _spawn_tts_voice: the thread each starts, and
\* the thread that called it.  Every call the worker makes to the analyzer,
\* the notifier or the synthesizer returns or raises.

\* Which function spawned the worker, SKIP_NO_ACTIVITY, and whether a voice
\* summary is wanted (tts and tts_on_summary).
WorkerConfigs ==
    [kind : {"gemini", "tts"}, skip_no_activity : BOOLEAN, voice : BOOLEAN]

\* main.py:56-57, main.py:70-71: th = threading.Thread(target=_work,
\* daemon=True); th.start().  The spawning thread goes on; `after` counts
\* the statements it has run since.  `calls` is what the worker has called, `failed` is the call that raised,
\* `log` the records the worker wrote, `alert` the failure message it tried
\* to send, `escaped` an exception leaving _work.
InitWorker ==
    /\ \E cfg \in WorkerConfigs :
           wk = [cfg |-> cfg,
                 pc |-> IF cfg.kind = "gemini" THEN "g_L30" ELSE "v_L65",
                 after |-> 0, joined |-> FALSE, failed |-> "", log |-> {},
                 alert |-> "none", escaped |-> FALSE, calls |-> {}]
    /\ ww = << >> /\ sd = << >> /\ rc = << >> /\ xc = << >>
    /\ fs = << >> /\ hk = << >>
    /\ MergerIdle
    /\ PairIdle
    /\ PipeIdle
    /\ ClipIdle
    /\ DetIdle
    /\ FilterIdle

WorkerFrame ==
    UNCHANGED << mergerVars, pairVars, pipeVars, clipVars, detVars, filterVars,
                 ww, sd, rc, xc, fs, hk >>

\* The worker `w` after it has called `what`.
WorkerCalled(w, what) == [w EXCEPT !.calls = @ \cup {what}]

\* The worker is at statement `at`.
WorkerAt(at) == wk # << >> /\ wk.pc = at

\* The spawning thread runs its next statement (main.py:275-277, 301-332):
\* none of them is th.join().
SpawnerStep ==
    /\ wk # << >> /\ wk.after < MaxSpawnerSteps
    /\ wk' = [wk EXCEPT !.after = @ + 1]
    /\ WorkerFrame

\* main.py:30: summary = gem.analyze_video(clip_path) returns a summary,
\* returns "NO_ACTIVITY", or raises.
g_L30 ==
    /\ WorkerAt("g_L30")
    /\ \E out \in {"summary", "NO_ACTIVITY", "raise"} :
           wk' = WorkerCalled(
                 IF out = "raise"
                  THEN [wk EXCEPT !.pc = "g_L51", !.failed = "analysis"]
                  ELSE IF out = "NO_ACTIVITY" /\ wk.cfg.skip_no_activity
                       THEN [wk EXCEPT !.pc = "done"]
                       ELSE [wk EXCEPT !.pc = "g_L38"],
                 "analyze_video")
    /\ WorkerFrame

\* main.py:38 with the raised exception leaving _work (mutation of g_L38).
g_L38NoBoundary ==
    /\ WorkerAt("g_L38")
    /\ \E ok \in BOOLEAN :
           wk' = WorkerCalled(
                 IF ~ok
                  THEN [wk EXCEPT !.pc = "done", !.failed = "text",
                                  !.escaped = TRUE]
                  ELSE [wk EXCEPT !.pc = IF wk.cfg.voice THEN "g_L45" ELSE "done"],
                 "send_text")
    /\ WorkerFrame

\* main.py:38-42: tele.send_text(text) returns or raises; then the voice
\* summary if wanted.
g_L38 ==
    /\ WorkerAt("g_L38")
    /\ \E ok \in BOOLEAN :
           wk' = WorkerCalled(
                 IF ~ok
                  THEN [wk EXCEPT !.pc = "g_L51", !.failed = "text"]
                  ELSE [wk EXCEPT !.pc = IF wk.cfg.voice THEN "g_L45" ELSE "done"],
                 "send_text")
    /\ WorkerFrame

\* main.py:45: tts.speak_to_ogg(summary, ogg_path) returns or raises.
g_L45 ==
    /\ WorkerAt("g_L45")
    /\ \E ok \in BOOLEAN :
           wk' = WorkerCalled(
                 IF ok THEN [wk EXCEPT !.pc = "g_L46"]
                  ELSE [wk EXCEPT !.pc = "g_L49", !.failed = "synthesis"],
                 "speak_to_ogg")
    /\ WorkerFrame

\* main.py:46: tele.send_voice(ogg_path) returns or raises.
g_L46 ==
    /\ WorkerAt("g_L46")
    /\ \E ok \in BOOLEAN :
           wk' = WorkerCalled(
                 IF ok THEN [wk EXCEPT !.pc = "done"]
                  ELSE [wk EXCEPT !.pc = "g_L49", !.failed = "voice"],
                 "send_voice")
    /\ WorkerFrame

\* main.py:48-49: except Exception: logger.warning(...); _work returns.
g_L49 ==
    /\ WorkerAt("g_L49")
    /\ wk' = [wk EXCEPT !.pc = "done", !.log = @ \cup {"warning"}]
    /\ WorkerFrame

\* main.py:50-51: except Exception: logger.exception(...)
g_L51 ==
    /\ WorkerAt("g_L51")
    /\ wk' = [wk EXCEPT !.pc = "g_L53", !.log = @ \cup {"exception"}]
    /\ WorkerFrame

\* main.py:52-55: tele.send_text("Gemini failed"), in try/except: pass;
\* _work returns.
g_L53 ==
    /\ WorkerAt("g_L53")
    /\ \E ok \in BOOLEAN :
           wk' = WorkerCalled(
                 [wk EXCEPT !.pc = "done",
                             !.alert = IF ok THEN "sent" ELSE "failed"],
                 "alert")
    /\ WorkerFrame

\* main.py:65: tts.speak_to_ogg(text, ogg_path) returns or raises.
v_L65 ==
    /\ WorkerAt("v_L65")
    /\ \E ok \in BOOLEAN :
           wk' = WorkerCalled(
                 IF ok THEN [wk EXCEPT !.pc = "v_L66"]
                  ELSE [wk EXCEPT !.pc = "v_L69", !.failed = "synthesis"],
                 "speak_to_ogg")
    /\ WorkerFrame

\* main.py:66: tele.send_voice(ogg_path) returns or raises.
v_L66 ==
    /\ WorkerAt("v_L66")
    /\ \E ok \in BOOLEAN :
           wk' = WorkerCalled(
                 IF ok THEN [wk EXCEPT !.pc = "done"]
                  ELSE [wk EXCEPT !.pc = "v_L69", !.failed = "voice"],
                 "send_voice")
    /\ WorkerFrame

\* main.py:68-69: except Exception: logger.warning(...); _work returns.
v_L69 ==
    /\ WorkerAt("v_L69")
    /\ wk' = [wk EXCEPT !.pc = "done", !.log = @ \cup {"warning"}]
    /\ WorkerFrame

NextWorker ==
    \/ SpawnerStep
    \/ g_L30
    \/ g_L38
    \/ g_L45
    \/ g_L46
    \/ g_L49
    \/ g_L51
    \/ g_L53
    \/ v_L65
    \/ v_L66
    \/ v_L69

SpecWorker == InitWorker /\ [][NextWorker]_vars

\* The worker's _work has returned after one of its calls raised.
EndedAfterFailure == wk.pc = "done" /\ wk.failed # ""

\* C27 (as claimed): a worker in which a call raised - the analysis, the
\* text send, the voice synthesis or the voice send - catches it, tries to
\* send a failure report and ends normally, the spawning thread unaffected.
C27_FailureReportAttempted ==
    EndedAfterFailure =>
        /\ ~wk.escaped
        /\ wk.alert # "none"
        /\ ~wk.joined

\* C27 (amended): a worker in which a call raised catches it, writes it to
\* the log and ends normally; it tries to send a failure report when the
\* analysis or the summary text failed, and only logs a warning when the
\* voice synthesis or the voice send failed.  The spawning thread goes on
\* without joining the worker and no exception reaches it.
C27_FailureLogged ==
    /\ ~wk.escaped /\ ~wk.joined
    /\ EndedAfterFailure =>
           /\ wk.log # {}
           /\ wk.failed \in {"analysis", "text"} <=> wk.alert # "none"
           /\ wk.failed \in {"analysis", "text"} <=> "exception" \in wk.log
           /\ wk.failed \in {"synthesis", "voice"} <=> "warning" \in wk.log
    /\ wk.failed = "" => wk.log = {} /\ wk.alert = "none"

\* C27 witness: the summary text of a worker failed to send, the failure
\* report failed as well, and the worker ended, while the spawning thread
\* had gone on before the worker made its first call.
C27_Witness ==
    /\ wk.cfg.kind = "gemini" /\ EndedAfterFailure
    /\ wk.failed = "text" /\ wk.alert = "failed"
    /\ wk.after = MaxSpawnerSteps

\* ------------------------------ SpecShutdown: the finally block of run()
\* The primary loop ends, then main.py:401-421.  The watchdog and the
\* ticker thread are in their wait or inside a call; each ends when it
\* finds its stop event set.  Time is in seconds.

\* main.py:406, main.py:412: join(timeout=2)
JoinTimeout == 2

\* wd_thread is None when WATCHDOG_ENABLE is off (main.py:218-221).
InitShutdown ==
    /\ \E enabled \in BOOLEAN :
           sd = [pc |-> "loop", cause |-> "",
                 wd_thread |-> IF enabled THEN "waiting" ELSE "none",
                 flush_thread |-> "waiting",
                 stop_wd |-> FALSE, stop_flush |-> FALSE, waited |-> 0,
                 wd_join |-> "", flush_join |-> "", rb_stop |-> ""]
    /\ ww = << >> /\ wk = << >> /\ rc = << >> /\ xc = << >>
    /\ fs = << >> /\ hk = << >>
    /\ MergerIdle
    /\ PairIdle
    /\ PipeIdle
    /\ ClipIdle
    /\ DetIdle
    /\ FilterIdle

ShutdownFrame ==
    UNCHANGED << mergerVars, pairVars, pipeVars, clipVars, detVars, filterVars,
                 ww, wk, rc, xc, fs, hk >>

SdAt(at) == sd # << >> /\ sd.pc = at

\* main.py:399-401: KeyboardInterrupt in the loop: except: pass, finally.
LoopInterrupted ==
    /\ SdAt("loop")
    /\ sd' = [sd EXCEPT !.pc = "fin_L404", !.cause = "KeyboardInterrupt"]
    /\ ShutdownFrame

\* main.py:349-401: another exception leaves the loop: finally runs with
\* the exception pending.
LoopRaised ==
    /\ SdAt("loop")
    /\ sd' = [sd EXCEPT !.pc = "fin_L404", !.cause = "Exception"]
    /\ ShutdownFrame

\* A background thread comes back from the call it was in to its wait
\* (main.py:213, main.py:343), or goes into a call.
ThreadMoves ==
    /\ sd # << >> /\ sd.pc # "exit"
    /\ \E th \in {"wd_thread", "flush_thread"} :
          \/ /\ sd[th] = "busy"
             /\ sd' = [sd EXCEPT ![th] = "waiting"]
          \/ /\ sd[th] = "waiting" /\ sd.pc = "loop"
             /\ sd' = [sd EXCEPT ![th] = "busy"]
    /\ ShutdownFrame

\* main.py:193, main.py:335: a background thread in its wait finds its stop
\* event set and ends.
ThreadEnds ==
    /\ sd # << >> /\ sd.pc # "exit"
    /\ \/ /\ sd.wd_thread = "waiting" /\ sd.stop_wd
          /\ sd' = [sd EXCEPT !.wd_thread = "ended"]
       \/ /\ sd.flush_thread = "waiting" /\ sd.stop_flush
          /\ sd' = [sd EXCEPT !.flush_thread = "ended"]
    /\ ShutdownFrame

\* A second passes while the primary thread is inside a join on a thread
\* that has not ended.
SdTick ==
    /\ sd # << >>
    /\ \/ sd.pc = "fin_L406" /\ sd.wd_thread # "ended"
       \/ sd.pc = "fin_L412" /\ sd.flush_thread # "ended"
    /\ sd.waited < JoinTimeout
    /\ sd' = [sd EXCEPT !.waited = @ + 1]
    /\ ShutdownFrame

\* main.py:403-405: stop_wd.set(); if wd_thread: ...
fin_L404 ==
    /\ SdAt("fin_L404")
    /\ sd' = [sd EXCEPT !.stop_wd = TRUE,
                        !.pc = IF sd.wd_thread = "none" THEN "fin_L411"
                               ELSE "fin_L406"]
    /\ ShutdownFrame

\* How a join(timeout=2) can end: the thread has ended, the timeout has
\* passed, or join raises.
JoinOutcomes(thread, waited) ==
    {"raised"} \cup (IF thread = "ended" THEN {"ended"} ELSE {})
               \cup (IF thread # "ended" /\ waited = JoinTimeout
                     THEN {"timeout"} ELSE {})

\* main.py:406-408: wd_thread.join(timeout=2); except Exception: pass
fin_L406 ==
    /\ SdAt("fin_L406")
    /\ \E out \in JoinOutcomes(sd.wd_thread, sd.waited) :
           sd' = [sd EXCEPT !.wd_join = out, !.waited = 0, !.pc = "fin_L411"]
    /\ ShutdownFrame

\* main.py:410-411: stop_flush.set()
fin_L411 ==
    /\ SdAt("fin_L411")
    /\ sd' = [sd EXCEPT !.stop_flush = TRUE, !.pc = "fin_L412"]
    /\ ShutdownFrame

\* main.py:412 without the try around it: an exception of join leaves the
\* finally block (mutation of fin_L412).
fin_L412NoTry ==
    /\ SdAt("fin_L412")
    /\ \E out \in JoinOutcomes(sd.flush_thread, sd.waited) :
           sd' = [sd EXCEPT !.flush_join = out, !.waited = 0,
                            !.pc = IF out = "raised" THEN "exit" ELSE "fin_L416"]
    /\ ShutdownFrame

\* main.py:412-414: flush_thread.join(timeout=2); except Exception: pass
fin_L412 ==
    /\ SdAt("fin_L412")
    /\ \E out \in JoinOutcomes(sd.flush_thread, sd.waited) :
           sd' = [sd EXCEPT !.flush_join = out, !.waited = 0, !.pc = "fin_L416"]
    /\ ShutdownFrame

\* main.py:416: rb.stop() returns, or raises and leaves run().
fin_L416 ==
    /\ SdAt("fin_L416")
    /\ \E out \in {"returned", "raised"} :
           sd' = [sd EXCEPT !.rb_stop = out,
                            !.pc = IF out = "raised" THEN "exit" ELSE "fin_L417"]
    /\ ShutdownFrame

\* main.py:417-421: the last log record and message (try/except: pass);
\* run() returns or the pending exception leaves it; the process exits.
fin_L417 ==
    /\ SdAt("fin_L417")
    /\ sd' = [sd EXCEPT !.pc = "exit"]
    /\ ShutdownFrame

NextShutdown ==
    \/ LoopInterrupted
    \/ LoopRaised
    \/ ThreadMoves
    \/ ThreadEnds
    \/ SdTick
    \/ fin_L404
    \/ fin_L406
    \/ fin_L411
    \/ fin_L412
    \/ fin_L416
    \/ fin_L417

SpecShutdown == InitShutdown /\ [][NextShutdown]_vars

\* C28: however the primary loop ends, a thread is joined only after its
\* stop event is set and no join lasts longer than its timeout; rb.stop()
\* is called only after the join of the watchdog (if there is one) and the
\* join of the ticker have returned or raised; and the process exits only
\* after rb.stop() has been called and has returned or raised.
C28_ShutdownOrder ==
    /\ sd.waited <= JoinTimeout
    /\ sd.pc = "fin_L406" \/ sd.wd_join # "" => sd.stop_wd
    /\ sd.pc = "fin_L412" \/ sd.flush_join # "" => sd.stop_flush
    /\ sd.wd_join = "ended" => sd.wd_thread = "ended"
    /\ sd.pc = "fin_L416" \/ sd.rb_stop # "" =>
           /\ sd.stop_wd /\ sd.stop_flush
           /\ sd.wd_thread # "none" => sd.wd_join # ""
           /\ sd.flush_join # ""
    /\ sd.pc = "exit" => sd.rb_stop # ""
    /\ sd.pc # "loop" => sd.cause # ""

\* C28 witness: an exception other than the shutdown signal ended the loop,
\* the join of the watchdog timed out and the join of the ticker raised;
\* rb.stop() was called all the same and returned before the exit.
C28_Witness ==
    /\ sd.pc = "exit" /\ sd.cause = "Exception"
    /\ sd.wd_join = "timeout" /\ sd.flush_join = "raised"
    /\ sd.rb_stop = "returned"

\* ------------------------------- SpecRecorder: FFmpegRingBuffer.stop()
\* One FFmpegRingBuffer, its ffmpeg process and a caller of start() and
\* stop().  The process may exit at any time, by itself or after SIGTERM,
\* and dies of SIGKILL.  Time is in seconds.

\* ringbuffer.py:30: self.proc.wait(timeout=5)
StopTimeout == 5

\* ringbuffer.py:6-13: self.proc = None.  Of the latest call of stop() since
\* the process was started:
\* `found` is what line 27 found, `terminated` and `killed` the calls of
\* terminate() and kill(), `timed_out` whether wait raised TimeoutExpired,
\* `waited` the seconds spent in wait and `signals` what the process got.
NoStopCall ==
    [found |-> "", terminated |-> FALSE, killed |-> FALSE,
     timed_out |-> FALSE, waited |-> 0, signals |-> {}]

InitRecorder ==
    /\ rc = [pc |-> "idle", proc |-> "none", calls |-> 0, stop |-> NoStopCall]
    /\ ww = << >> /\ wk = << >> /\ sd = << >> /\ xc = << >>
    /\ fs = << >> /\ hk = << >>
    /\ MergerIdle
    /\ PairIdle
    /\ PipeIdle
    /\ ClipIdle
    /\ DetIdle
    /\ FilterIdle

RecorderFrame ==
    UNCHANGED << mergerVars, pairVars, pipeVars, clipVars, detVars, filterVars,
                 ww, wk, sd, xc, fs, hk >>

RcAt(at) == rc # << >> /\ rc.pc = at

\* ringbuffer.py:15-24: start(): self.proc = subprocess.Popen(cmd)
RcStart ==
    /\ RcAt("idle") /\ rc.proc # "running"
    /\ rc.calls < MaxStopCalls
    /\ rc' = [rc EXCEPT !.proc = "running", !.stop = NoStopCall]
    /\ RecorderFrame

\* The ffmpeg process exits.
ProcExits ==
    /\ rc # << >> /\ rc.proc = "running"
    /\ rc' = [rc EXCEPT !.proc = "exited"]
    /\ RecorderFrame

\* A second passes while the caller is inside wait and the process runs.
RcTick ==
    /\ RcAt("stop_L30") /\ rc.proc = "running"
    /\ rc.stop.waited < StopTimeout
    /\ rc' = [rc EXCEPT !.stop.waited = @ + 1]
    /\ RecorderFrame

\* The caller calls stop().
RcStop ==
    /\ RcAt("idle") /\ rc.calls < MaxStopCalls
    /\ rc' = [rc EXCEPT !.pc = "stop_L27", !.stop = NoStopCall]
    /\ RecorderFrame

\* ringbuffer.py:27: if self.proc and self.proc.poll() is None
stop_L27 ==
    /\ RcAt("stop_L27")
    /\ rc' = [rc EXCEPT !.stop.found = rc.proc,
                        !.pc = IF rc.proc = "running" THEN "stop_L28" ELSE "idle",
                        !.calls = IF rc.proc = "running" THEN @ ELSE @ + 1]
    /\ RecorderFrame

\* ringbuffer.py:28: self.proc.terminate(): SIGTERM, unless the process
\* has exited since line 27.
stop_L28 ==
    /\ RcAt("stop_L28")
    /\ rc' = [rc EXCEPT !.pc = "stop_L30", !.stop.terminated = TRUE,
                        !.stop.signals = IF rc.proc = "running"
                                         THEN @ \cup {"SIGTERM"} ELSE @]
    /\ RecorderFrame

\* ringbuffer.py:29-32 killing as soon as wait is entered (mutation of
\* stop_L30).
stop_L30NoWait ==
    /\ RcAt("stop_L30")
    /\ rc' = [rc EXCEPT !.pc = "stop_L32"]
    /\ RecorderFrame

\* ringbuffer.py:29-31: self.proc.wait(timeout=5) returns when the process
\* has exited and raises TimeoutExpired after 5 s if it has not.
stop_L30 ==
    /\ RcAt("stop_L30")
    /\ \/ /\ rc.proc = "exited"
          /\ rc' = [rc EXCEPT !.pc = "idle", !.calls = @ + 1]
       \/ /\ rc.proc = "running" /\ rc.stop.waited = StopTimeout
          /\ rc' = [rc EXCEPT !.pc = "stop_L32", !.stop.timed_out = TRUE]
    /\ RecorderFrame

\* ringbuffer.py:32: self.proc.kill(): SIGKILL, unless the process has
\* exited since the timeout; stop() returns.
stop_L32 ==
    /\ RcAt("stop_L32")
    /\ rc' = [rc EXCEPT !.pc = "idle", !.calls = @ + 1,
                        !.stop.killed = TRUE,
                        !.stop.signals = IF rc.proc = "running"
                                         THEN @ \cup {"SIGKILL"} ELSE @,
                        !.proc = IF rc.proc = "running" THEN "exited" ELSE @]
    /\ RecorderFrame

NextRecorder ==
    \/ RcStart
    \/ ProcExits
    \/ RcTick
    \/ RcStop
    \/ stop_L27
    \/ stop_L28
    \/ stop_L30
    \/ stop_L32

SpecRecorder == InitRecorder /\ [][NextRecorder]_vars

\* A call of stop() has returned.
StopReturned == rc.pc = "idle" /\ rc.stop.found # ""

\* C29: stop() on a running process calls terminate(), waits at most the
\* timeout, and calls kill() exactly when the process has not exited by
\* then; on a recorder never started or whose process has exited it
\* calls nothing.  After stop() the process is not running.
C29_StopContract ==
    /\ rc.stop.waited <= StopTimeout
    /\ rc.stop.found \in {"none", "exited"} =>
           /\ ~rc.stop.terminated /\ ~rc.stop.killed
           /\ rc.stop.signals = {} /\ rc.stop.waited = 0
    /\ (rc.stop.found = "running" /\ rc.pc # "stop_L28") => rc.stop.terminated
    /\ rc.stop.killed => rc.stop.terminated /\ rc.stop.timed_out
    /\ rc.stop.timed_out => rc.stop.waited = StopTimeout
    /\ "SIGKILL" \in rc.stop.signals => "SIGTERM" \in rc.stop.signals
    /\ StopReturned => rc.stop.killed = rc.stop.timed_out
    /\ (StopReturned /\ rc.stop.found = "running" /\ ~rc.stop.killed) =>
           rc.proc = "exited"
    /\ (StopReturned /\ rc.stop.killed) => rc.proc = "exited"

\* C29 witness: the process ignored SIGTERM for the whole timeout and
\* stop() killed it.
C29_Witness ==
    /\ StopReturned
    /\ rc.stop.signals = {"SIGTERM", "SIGKILL"}
    /\ rc.stop.waited = StopTimeout

\* ------------------------------------------------- SpecMerger: sequential
\* (idle_end, cooldown) a merger is constructed with: EventMerger()'s defaults.
Configs == { << IdleEndDefault, CooldownDefault >> }

NoPushes == [c \in Classes |-> 0]

SumPushed(bag) ==
    LET S[cs \in SUBSET Classes] ==
            IF cs = {} THEN 0
            ELSE LET c == CHOOSE x \in cs : TRUE IN bag[c] + S[cs \ {c}]
    IN  S[Classes]

IsDefaultConfig(mm) ==
    mm.idle_end = IdleEndDefault /\ mm.cooldown = CooldownDefault

\* Observer of the scenario "person at 0,1,2; flush_due(7); a push inside
\* [7,13); push(person,14)": the next position, or 9 once the run leaves it.
ScenNext(pos, op, cls, t) ==
    CASE pos = 0 /\ op = "push" /\ cls = "person" /\ t = 0 -> 1
      [] pos = 1 /\ op = "push" /\ cls = "person" /\ t = 1 -> 2
      [] pos = 2 /\ op = "push" /\ cls = "person" /\ t = 2 -> 3
      [] pos = 3 /\ op = "flush_due" /\ t = 7 -> 4
      [] pos = 4 /\ op = "push" /\ cls = "person" /\ t \in 7..12 -> 5
      [] pos = 5 /\ op = "push" /\ cls = "person" /\ t = 14 -> 6
      [] OTHER -> 9

InitMerger ==
    /\ \E cfg \in Configs : m = NewMerger(cfg[1], cfg[2])
    /\ call = [op |-> "init", cls |-> "", t |-> 0, ret |-> << >>]
    /\ lastPushTs = -1
    /\ pushed = NoPushes
    /\ emits = 0
    /\ scen = IF IsDefaultConfig(m) THEN 0 ELSE 9
    /\ PairIdle
    /\ PipeIdle
    /\ RestIdle

\* The caller pushes a detection with a timestamp later than every earlier one.
CallPush ==
    \E cls \in Classes, ts \in 0..MaxTime :
        /\ ts > lastPushTs
        /\ SumPushed(pushed) < MaxBurst
        /\ LET r        == push(m, cls, ts)
               accepted == ~(ts < m.cooldown_until /\ m.active = << >>)
           IN  /\ m' = r.m
               /\ call' = [op |-> "push", cls |-> cls, t |-> ts, ret |-> r.ret]
               /\ pushed' = IF accepted
                            THEN [pushed EXCEPT ![cls] = @ + 1]
                            ELSE pushed
               /\ emits' = IF accepted THEN 0 ELSE emits
        /\ lastPushTs' = ts
        /\ scen' = ScenNext(scen, "push", cls, ts)
        /\ UNCHANGED << pairVars, pipeVars, restVars >>

CallFlushDue ==
    \E now_ts \in 0..MaxTime :
        /\ LET r == flush_due(m, now_ts)
           IN  /\ m' = r.m
               /\ call' = [op |-> "flush_due", cls |-> "", t |-> now_ts, ret |-> r.ret]
               /\ pushed' = IF r.ret # << >> THEN NoPushes ELSE pushed
               /\ emits' = IF r.ret # << >> THEN emits + 1 ELSE emits
        /\ scen' = ScenNext(scen, "flush_due", "", now_ts)
        /\ UNCHANGED << lastPushTs, pairVars, pipeVars, restVars >>

CallForceClose ==
    \E now_ts \in 0..MaxTime :
        /\ LET r == force_close(m, now_ts)
           IN  /\ m' = r.m
               /\ call' = [op |-> "force_close", cls |-> "", t |-> now_ts, ret |-> r.ret]
               /\ pushed' = IF r.ret # << >> THEN NoPushes ELSE pushed
               /\ emits' = IF r.ret # << >> THEN emits + 1 ELSE emits
        /\ scen' = ScenNext(scen, "force_close", "", now_ts)
        /\ UNCHANGED << lastPushTs, pairVars, pipeVars, restVars >>

NextMerger ==
    \/ CallPush
    \/ CallFlushDue
    \/ CallForceClose

SpecMerger == InitMerger /\ [][NextMerger]_vars

\* ----------------------------------------------------- SpecMerger: claims
IsEmission(c) == c.op \in {"flush_due", "force_close"} /\ c.ret # << >>

\* C4: single-threaded, strictly increasing push timestamps: flush_due(now)
\* emits iff an active event exists and now - last_det_ts >= idle_end; after
\* an emission the active slot is empty; at most one close emits per run of
\* accepted pushes; below the threshold the merger is left unchanged.
C4_FlushDueContract ==
    [][call'.op = "flush_due" =>
        LET now == call'.t
            due == /\ m.active # << >>
                   /\ now - m.active[1].last_det_ts >= m.idle_end
        IN  /\ (call'.ret # << >>) <=> due
            /\ due => /\ m'.active = << >>
                      /\ call'.ret[1].first = m.active[1].start_ts
                      /\ call'.ret[1].last = m.active[1].last_det_ts
            /\ ~due => m' = m
            /\ emits' <= 1
            /\ (m.active = << >>) => call'.ret = << >>]_vars

\* C4 witness: a flush_due at exactly the idle threshold has emitted.
C4_Witness ==
    /\ call.op = "flush_due"
    /\ call.ret # << >>
    /\ call.t - call.ret[1].last = m.idle_end
    /\ m.active = << >>
    /\ emits = 1

\* C5 (as claimed): the count of an emitted event is the total number of
\* pushes accepted into it, all classes together.
C5_CountIsTotal ==
    [][IsEmission(call') => call'.ret[1].count = SumPushed(pushed)]_vars

\* C6: with no active event, push(cls, ts) starts an event (start = last =
\* ts, count of cls = 1) iff ts >= cooldown_until, and is a no-op otherwise;
\* a close at `now` sets cooldown_until = now + cooldown; and the scenario
\* idle_end=4, cooldown=6, person at 0,1,2, flush_due(7), push in [7,13),
\* push at 14 runs as the spec says.
C6_Scenario ==
    /\ scen = 3 => /\ m.active # << >>
                   /\ m.active[1].start_ts = 0
                   /\ m.active[1].last_det_ts = 2
    /\ scen = 4 => /\ call.ret = << [first |-> 0, last |-> 2,
                                    cls |-> "person", count |-> 3] >>
                   /\ m.active = << >>
                   /\ m.cooldown_until = 13
    /\ scen = 5 => /\ m.active = << >>
                   /\ m.cooldown_until = 13
    /\ scen = 6 => /\ m.active # << >>
                   /\ m.active[1].start_ts = 14
                   /\ m.active[1].last_det_ts = 14
                   /\ m.active[1].counts = << [cls |-> "person", n |-> 1] >>

C6_CooldownGate ==
    [][/\ (call'.op = "push" /\ m.active = << >>) =>
            IF call'.t >= m.cooldown_until
            THEN /\ m'.active = << [start_ts |-> call'.t, last_ts |-> call'.t,
                                    last_det_ts |-> call'.t,
                                    counts |-> << [cls |-> call'.cls, n |-> 1] >>] >>
                 /\ m'.cooldown_until = m.cooldown_until
            ELSE m' = m
       /\ IsEmission(call') => m'.cooldown_until = call'.t + m.cooldown
       /\ C6_Scenario']_vars

\* C6 witness: the scenario ran to its end: the push inside the cooldown
\* was dropped and the push at 14 started a new event.
C6_Witness == scen = 6

\* C9: force_close(now) closes an active event whatever the idle gap, with
\* the emission flush_due would give, empties the slot and arms the
\* cooldown from `now`; without an active event it returns nothing and
\* leaves the merger unchanged.
C9_ForceClose ==
    [][call'.op = "force_close" =>
        IF m.active # << >>
        THEN /\ call'.ret # << >>
             /\ call'.ret = flush_due(m, m.active[1].last_det_ts + m.idle_end).ret
             /\ call'.ret[1].first = m.active[1].start_ts
             /\ call'.ret[1].last = m.active[1].last_det_ts
             /\ m'.active = << >>
             /\ m'.cooldown_until = call'.t + m.cooldown
        ELSE /\ call'.ret = << >>
             /\ m' = m]_vars

\* C9 witness: force_close emitted an event whose idle gap was below idle_end.
C9_Witness ==
    /\ call.op = "force_close"
    /\ call.ret # << >>
    /\ call.t - call.ret[1].last < m.idle_end
    /\ m.active = << >>
    /\ m.cooldown_until = call.t + m.cooldown

\* ------------------------------------- SpecMergerAnyTs: any call sequence
\* The merger takes whatever timestamps its caller passes: push() does not
\* compare ts with the event it extends (event_merger.py:57-59), and the
\* caller's timestamps are wall-clock readings (detector.py:243).
CallPushAnyTs ==
    \E cls \in Classes, ts \in 0..MaxAnyTs :
        /\ SumPushed(pushed) < MaxBurst
        /\ LET r        == push(m, cls, ts)
               accepted == ~(ts < m.cooldown_until /\ m.active = << >>)
           IN  /\ m' = r.m
               /\ call' = [op |-> "push", cls |-> cls, t |-> ts, ret |-> r.ret]
               /\ pushed' = IF accepted
                            THEN [pushed EXCEPT ![cls] = @ + 1]
                            ELSE pushed
               /\ emits' = IF accepted THEN 0 ELSE emits
        /\ lastPushTs' = ts
        /\ scen' = 9
        /\ UNCHANGED << pairVars, pipeVars, restVars >>

CallFlushDueAnyTs ==
    \E now_ts \in 0..MaxAnyTs :
        /\ LET r == flush_due(m, now_ts)
           IN  /\ m' = r.m
               /\ call' = [op |-> "flush_due", cls |-> "", t |-> now_ts, ret |-> r.ret]
               /\ pushed' = IF r.ret # << >> THEN NoPushes ELSE pushed
               /\ emits' = IF r.ret # << >> THEN emits + 1 ELSE emits
        /\ scen' = 9
        /\ UNCHANGED << lastPushTs, pairVars, pipeVars, restVars >>

CallForceCloseAnyTs ==
    \E now_ts \in 0..MaxAnyTs :
        /\ LET r == force_close(m, now_ts)
           IN  /\ m' = r.m
               /\ call' = [op |-> "force_close", cls |-> "", t |-> now_ts, ret |-> r.ret]
               /\ pushed' = IF r.ret # << >> THEN NoPushes ELSE pushed
               /\ emits' = IF r.ret # << >> THEN emits + 1 ELSE emits
        /\ scen' = 9
        /\ UNCHANGED << lastPushTs, pairVars, pipeVars, restVars >>

NextMergerAnyTs ==
    \/ CallPushAnyTs
    \/ CallFlushDueAnyTs
    \/ CallForceCloseAnyTs

SpecMergerAnyTs == InitMerger /\ [][NextMergerAnyTs]_vars

\* C11 (as claimed): every emission of the merger has first <= last, for
\* every sequence of push / flush_due / force_close calls.
C11_FirstLeLast ==
    IsEmission(call) => call.ret[1].first <= call.ret[1].last

\* ------------------------------------------- SpecPair: two events compared
\* Two mergers are each fed a sequence of classes (timestamps 0, 1, 2, ...)
\* and then closed, by flush_due once idle or by force_close.

FeedBound(i) == IF i = 1 THEN MaxFeed ELSE MaxFeedOther

InitPair ==
    /\ pm = << NewMerger(IdleEndDefault, CooldownDefault),
               NewMerger(IdleEndDefault, CooldownDefault) >>
    /\ pfeed = << << >>, << >> >>
    /\ pout = << << >>, << >> >>
    /\ MergerIdle
    /\ PipeIdle
    /\ RestIdle

PairFeed ==
    \E i \in 1..2, cls \in Classes :
        /\ pout[i] = << >>
        /\ Len(pfeed[i]) < FeedBound(i)
        /\ pm' = [pm EXCEPT ![i] = push(pm[i], cls, Len(pfeed[i])).m]
        /\ pfeed' = [pfeed EXCEPT ![i] = Append(@, cls)]
        /\ UNCHANGED << pout, mergerVars, pipeVars, restVars >>

PairFlush ==
    \E i \in 1..2 :
        /\ pout[i] = << >>
        /\ pm[i].active # << >>
        /\ LET r == flush_due(pm[i], pm[i].active[1].last_det_ts + pm[i].idle_end)
           IN  /\ pm' = [pm EXCEPT ![i] = r.m]
               /\ pout' = [pout EXCEPT ![i] = r.ret]
        /\ UNCHANGED << pfeed, mergerVars, pipeVars, restVars >>

PairForceClose ==
    \E i \in 1..2 :
        /\ pout[i] = << >>
        /\ pm[i].active # << >>
        /\ LET r == force_close(pm[i], pm[i].active[1].last_det_ts)
           IN  /\ pm' = [pm EXCEPT ![i] = r.m]
               /\ pout' = [pout EXCEPT ![i] = r.ret]
        /\ UNCHANGED << pfeed, mergerVars, pipeVars, restVars >>

NextPair ==
    \/ PairFeed
    \/ PairFlush
    \/ PairForceClose

SpecPair == InitPair /\ [][NextPair]_vars

\* How often cls occurs in a feed.
Occurrences(feed, cls) == Cardinality({k \in 1..Len(feed) : feed[k] = cls})

\* Index of the first occurrence of cls in a feed (0: never pushed).
FirstSeen(feed, cls) ==
    IF \E k \in 1..Len(feed) : feed[k] = cls
    THEN CHOOSE k \in 1..Len(feed) :
             feed[k] = cls /\ \A j \in 1..(k - 1) : feed[j] # cls
    ELSE 0

SameCounts(f, g) == \A c \in Classes : Occurrences(f, c) = Occurrences(g, c)

SameFirstOrder(f, g) ==
    \A c, d \in Classes :
        (FirstSeen(f, c) < FirstSeen(f, d)) <=> (FirstSeen(g, c) < FirstSeen(g, d))

BothEmitted == pout # << >> /\ pout[1] # << >> /\ pout[2] # << >>

\* C7: the class of an emitted event was pushed into the event and no
\* class was pushed more often; the emitted count is that class's count.
C7_DominantClass ==
    \A i \in 1..Len(pout) :
        pout[i] # << >> =>
            LET e == pout[i][1]
            IN  /\ e.cls \in Classes
                /\ Occurrences(pfeed[i], e.cls) > 0
                /\ \A c \in Classes :
                       Occurrences(pfeed[i], c) <= Occurrences(pfeed[i], e.cls)

\* C7 witness: an event with person=3, dog=5 was emitted as dog.
C7_Witness ==
    /\ pout # << >>
    /\ pout[1] # << >>
    /\ Occurrences(pfeed[1], "person") = 3
    /\ Occurrences(pfeed[1], "dog") = 5
    /\ pout[1][1].cls = "dog"

\* C8 (as claimed): two events with identical per-class counts emit the
\* same class, whatever the order of their pushes.
C8_FixedClassOrder ==
    (BothEmitted /\ SameCounts(pfeed[1], pfeed[2]))
        => pout[1][1].cls = pout[2][1].cls

\* C8 (amended): among the classes with the highest count the emitted one
\* is the class pushed into the event first; so two events with identical
\* per-class counts whose classes first appeared in the same order emit
\* the same class.
C8_FirstPushedWins ==
    /\ \A i \in 1..Len(pout) :
           pout[i] # << >> =>
               \A c \in Classes :
                   (c # pout[i][1].cls
                    /\ Occurrences(pfeed[i], c) = Occurrences(pfeed[i], pout[i][1].cls))
                       => FirstSeen(pfeed[i], pout[i][1].cls) < FirstSeen(pfeed[i], c)
    /\ (BothEmitted /\ SameCounts(pfeed[1], pfeed[2])
                    /\ SameFirstOrder(pfeed[1], pfeed[2]))
           => pout[1][1].cls = pout[2][1].cls

\* C8 witness: two tied events, pushed in different orders but with the
\* same class first, emitted that class.
C8_Witness ==
    /\ BothEmitted
    /\ pfeed[1] # pfeed[2]
    /\ SameCounts(pfeed[1], pfeed[2])
    /\ SameFirstOrder(pfeed[1], pfeed[2])
    /\ Occurrences(pfeed[1], "person") = Occurrences(pfeed[1], "dog")
    /\ pout[1][1].cls = pout[2][1].cls
    /\ pout[1][1].cls = pfeed[1][1]

Max2(a, b) == IF a >= b THEN a ELSE b
Min2(a, b) == IF a <= b THEN a ELSE b

\* ------------------------------------------- SpecClip: the clip extractor
\* One call rb.make_clip(t0, t1, clip_path) against a buffer directory that
\* holds the segment files named by their start second.  The caller only
\* asks for t1 > t0 (main.py:248-250).  ffmpeg's two runs end with exit
\* status zero or non-zero.

\* sorted(...) of a set of numbers, as a sequence.
RECURSIVE SortedSeq(_)
SortedSeq(S) ==
    IF S = {} THEN << >>
    ELSE LET lo == CHOOSE x \in S : \A y \in S : x <= y
         IN  << lo >> \o SortedSeq(S \ {lo})

SeqRange(q) == { q[i] : i \in 1..Len(q) }

\* ringbuffer.py:52: if ts + self.seg >= t0 and ts <= t1
Selects(ts, seg, t0, t1) == ts + seg >= t0 /\ ts <= t1

InitClip ==
    /\ \E buffer \in SUBSET (0..MaxSegStart), t0 \in 0..MaxReqTs, t1 \in 0..MaxReqTs :
          /\ t1 > t0
          /\ mc = [pc |-> "mc_L40", buffer |-> buffer, seg |-> SegmentSecondsDefault,
                   t0 |-> t0, t1 |-> t1, segs |-> << >>, selected |-> << >>,
                   copy |-> "none", reenc |-> "none", result |-> ""]
    /\ MergerIdle
    /\ PairIdle
    /\ PipeIdle
    /\ DetIdle
    /\ FilterIdle
    /\ LateIdle

\* ringbuffer.py:40-42: segs = self._list_segments(); if not segs: raise
mc_L40 ==
    /\ mc # << >> /\ mc.pc = "mc_L40"
    /\ LET segs == SortedSeq(mc.buffer)
       IN  mc' = IF segs = << >>
                 THEN [mc EXCEPT !.pc = "done", !.result = "RuntimeError"]
                 ELSE [mc EXCEPT !.pc = "mc_L49", !.segs = segs]
    /\ UNCHANGED << mergerVars, pairVars, pipeVars, detVars, filterVars, lateVars >>

\* ringbuffer.py:49-55: the selection loop; if not selected: raise
mc_L49 ==
    /\ mc # << >> /\ mc.pc = "mc_L49"
    /\ LET selected == SelectSeq(mc.segs,
                           LAMBDA ts : Selects(ts, mc.seg, mc.t0, mc.t1))
       IN  mc' = IF selected = << >>
                 THEN [mc EXCEPT !.pc = "done", !.result = "RuntimeError"]
                 ELSE [mc EXCEPT !.pc = "mc_L68", !.selected = selected]
    /\ UNCHANGED << mergerVars, pairVars, pipeVars, detVars, filterVars, lateVars >>

\* make_clip that runs the re-encoding whatever the stream copy returned
\* (mutation of mc_L68).
mc_L68AlwaysFallback ==
    /\ mc # << >> /\ mc.pc = "mc_L68"
    /\ \E returncode \in {0, 1} :
          mc' = [mc EXCEPT !.pc = "mc_L76",
                           !.copy = IF returncode = 0 THEN "ok" ELSE "fail"]
    /\ UNCHANGED << mergerVars, pairVars, pipeVars, detVars, filterVars, lateVars >>

\* ringbuffer.py:57-69,77: the concat list is written, ffmpeg -c copy is
\* run; returncode 0 returns clip_path, anything else goes to the fallback.
mc_L68 ==
    /\ mc # << >> /\ mc.pc = "mc_L68"
    /\ \E returncode \in {0, 1} :
          mc' = IF returncode # 0
                THEN [mc EXCEPT !.pc = "mc_L76", !.copy = "fail"]
                ELSE [mc EXCEPT !.pc = "done", !.copy = "ok", !.result = "path"]
    /\ UNCHANGED << mergerVars, pairVars, pipeVars, detVars, filterVars, lateVars >>

\* ringbuffer.py:71-77: subprocess.check_call of the libx264 concat raises
\* CalledProcessError on a non-zero status, else clip_path is returned.
mc_L76 ==
    /\ mc # << >> /\ mc.pc = "mc_L76"
    /\ \E returncode \in {0, 1} :
          mc' = IF returncode # 0
                THEN [mc EXCEPT !.pc = "done", !.reenc = "fail",
                                !.result = "CalledProcessError"]
                ELSE [mc EXCEPT !.pc = "done", !.reenc = "ok", !.result = "path"]
    /\ UNCHANGED << mergerVars, pairVars, pipeVars, detVars, filterVars, lateVars >>

NextClip ==
    \/ mc_L40
    \/ mc_L49
    \/ mc_L68
    \/ mc_L76

SpecClip == InitClip /\ [][NextClip]_vars

\* ------------------------------------------------------- SpecClip: claims
\* The stored segments whose half-open interval [start, start + seg)
\* intersects [t0, t1].
Intersecting == { ts \in mc.buffer : ts <= mc.t1 /\ ts + mc.seg > mc.t0 }

SelectionDone == mc # << >> /\ mc.pc \in {"mc_L68", "mc_L76"}

\* C12 (as claimed): the segments make_clip selects are exactly the stored
\* segments whose interval [start, start + seg) intersects [t0, t1].
C12_SelectsIntersecting ==
    SelectionDone => SeqRange(mc.selected) = Intersecting

\* C13 (as claimed): when no stored segment intersects [t0, t1], make_clip
\* ends with an error, before any concatenation, and returns no path.
C13_NoOverlapFails ==
    (mc # << >> /\ Intersecting = {}) =>
        /\ mc.copy = "none" /\ mc.reenc = "none"
        /\ mc.result # "path"
        /\ mc.pc = "done" => mc.result = "RuntimeError"

RECURSIVE PopStale(_, _, _)
PopStale(dq, ts, window) ==
    IF dq # << >> /\ ts - dq[1] > window
    THEN PopStale(Tail(dq), ts, window)
    ELSE dq

\* A debounce that counts the detections of every class together
\* (mutation of DebounceStep).
DebounceStepAnyClass(dqs, cls, ts, window) ==
    LET dq == PopStale(Append(dqs[cls], ts), ts, window)
    IN  [c \in DOMAIN dqs |-> dq]

\* main.py:382-385: dq = _dqs[cls]; dq.append(ts); stale entries popped.
DebounceStep(dqs, cls, ts, window) ==
    [dqs EXCEPT ![cls] = PopStale(Append(dqs[cls], ts), ts, window)]

\* ------------------------------- SpecDebounce: blackout check and debounce
\* The head of the primary loop's body (main.py:350-387) run on a stream of
\* detections, with CONFIRM_FRAMES = 3 and CONFIRM_WINDOW = 0.8 s.  Time is
\* in tenths of a second; a detection is consumed at the instant it is
\* stamped.  The blackout is armed by process_emitted (main.py:230-241),
\* here at any instant.
InitDebounce ==
    /\ flt = [clock |-> 0, next_armed_ts |-> 0,
              recent |-> [c \in Classes |-> << >>],
              seen |-> << >>]
    /\ MergerIdle
    /\ PairIdle
    /\ PipeIdle
    /\ ClipIdle
    /\ DetIdle
    /\ LateIdle

FilterFrame ==
    UNCHANGED << mergerVars, pairVars, pipeVars, clipVars, detVars, lateVars >>

\* time.time() advances by a tenth of a second.
FTick ==
    /\ flt # << >> /\ flt.clock < MaxFilterClock
    /\ flt' = [flt EXCEPT !.clock = @ + 1]
    /\ FilterFrame

\* main.py:235,241: next_armed_ts = now + (a blackout length, here 0.2 s)
FArm ==
    /\ flt # << >> /\ flt.next_armed_ts <= flt.clock
    /\ flt' = [flt EXCEPT !.next_armed_ts = flt.clock + 2]
    /\ FilterFrame

\* main.py:350-387: one detection goes through the blackout check and the
\* debounce; `fate` records where the iteration ended.
FDetect ==
    /\ flt # << >> /\ Len(flt.seen) < MaxFilterDet
    /\ \E cls \in Classes :
          LET now    == flt.clock
              ts     == flt.clock
              after  == DebounceStep(flt.recent, cls, ts, ConfirmWindowTenths)
          IN  IF now < flt.next_armed_ts
              THEN flt' = [flt EXCEPT !.seen =
                              Append(@, [cls |-> cls, ts |-> ts, fate |-> "blackout"])]
              ELSE flt' = [flt EXCEPT
                              !.recent = after,
                              !.seen = Append(@,
                                  [cls |-> cls, ts |-> ts,
                                   fate |-> IF Len(after[cls]) < ConfirmFramesDefault
                                            THEN "debounced" ELSE "push"])]
    /\ FilterFrame

NextDebounce ==
    \/ FTick
    \/ FArm
    \/ FDetect

SpecDebounce == InitDebounce /\ [][NextDebounce]_vars

\* ---------------------------------------------------- SpecDebounce: claims
\* The detections up to the i-th that have the i-th's class, passed the
\* blackout check and are within CONFIRM_WINDOW of it.
Confirming(i) ==
    { j \in 1..i : /\ flt.seen[j].cls = flt.seen[i].cls
                   /\ flt.seen[j].fate # "blackout"
                   /\ flt.seen[i].ts - flt.seen[j].ts <= ConfirmWindowTenths }

DetConfigs ==
    { [stall |-> 3, max_fail_reads |-> 2, backoff_init |-> 1, backoff_max |-> 3,
       wd_stall |-> 2],
      [stall |-> 2, max_fail_reads |-> 3, backoff_init |-> 2, backoff_max |-> 1,
       wd_stall |-> 2] }

\* start_ts of run() (main.py:189) and the instant stream_detect is entered.
DetStart == 1

InitDetector ==
    /\ dcfg \in DetConfigs
    /\ dclock = DetStart
    /\ dpc = "d_L169"
    /\ det = [cap |-> "none", last_ok |-> 0, fail_reads |-> 0, backoff |-> 0,
              reopen_request |-> FALSE, last_frame_ts |-> 0, now |-> 0,
              wake |-> 0]
    /\ wd = [pc |-> "wd_L195", alerted |-> FALSE]
    /\ dg = [k |-> 0, delay |-> 0, lastFailed |-> FALSE, lastReadAt |-> 0,
             readGapOk |-> TRUE, reopenGapOk |-> TRUE, reopens |-> 0,
             iterReq |-> FALSE, lastIterReq |-> FALSE, iter |-> "none"]
    /\ MergerIdle
    /\ PairIdle
    /\ PipeIdle
    /\ ClipIdle
    /\ FilterIdle
    /\ LateIdle

DetFrame ==
    UNCHANGED << dcfg, mergerVars, pairVars, pipeVars, clipVars, filterVars,
                 lateVars >>

\* What cv2.VideoCapture(url) gives: a capture that is opened or not.
CapStates == {"open", "closed"}

\* The loop goes back to `while True` (detector.py:179): the iteration that
\* ends is recorded, and whether a reopen was requested as the next begins.
EndIteration(g, kind, flag) ==
    [g EXCEPT !.iter = kind, !.lastIterReq = g.iterReq, !.iterReq = flag]

\* The detector is blocked inside cap.read() or inside time.sleep().
Blocked ==
    \/ dpc = "d_L180"
    \/ dpc \in {"d_L172", "d_L197", "d_L204"} /\ dclock < det.wake

\* Time passes.
DTick ==
    /\ dpc # "" /\ Blocked
    /\ dclock < MaxDetClock
    /\ dclock' = dclock + 1
    /\ UNCHANGED << dpc, det, wd, dg >>
    /\ DetFrame

\* detector.py:169-170: cap = reopen(None); if not cap.isOpened()
d_L169 ==
    /\ dpc = "d_L169"
    /\ \E cap \in CapStates :
          /\ det' = [det EXCEPT !.cap = cap]
          /\ dpc' = IF cap = "open" THEN "d_L174" ELSE "d_L171"
    /\ UNCHANGED << dclock, wd, dg >>
    /\ DetFrame

\* detector.py:171: time.sleep(self.backoff_init) begins
d_L171 ==
    /\ dpc = "d_L171"
    /\ det' = [det EXCEPT !.wake = dclock + dcfg.backoff_init]
    /\ dpc' = "d_L172"
    /\ UNCHANGED << dclock, wd, dg >>
    /\ DetFrame

\* detector.py:172: the sleep is over; cap = reopen(cap)
d_L172 ==
    /\ dpc = "d_L172" /\ dclock >= det.wake
    /\ \E cap \in CapStates : det' = [det EXCEPT !.cap = cap]
    /\ dg' = [dg EXCEPT !.reopens = 1,
                        !.reopenGapOk = @ /\ dclock - DetStart >= dcfg.backoff_init]
    /\ dpc' = "d_L174"
    /\ UNCHANGED << dclock, wd >>
    /\ DetFrame

\* detector.py:174-177: i = 0; last_ok = time.time(); fail_reads = 0;
\* backoff = self.backoff_init
d_L174 ==
    /\ dpc = "d_L174"
    /\ det' = [det EXCEPT !.last_ok = dclock, !.fail_reads = 0,
                          !.backoff = dcfg.backoff_init]
    /\ dg' = [dg EXCEPT !.iterReq = det.reopen_request, !.lastReadAt = dclock]
    /\ dpc' = "d_L180"
    /\ UNCHANGED << dclock, wd >>
    /\ DetFrame

\* detector.py:180-183: ok, frame = cap.read() returns; now = time.time()
d_L180 ==
    /\ dpc = "d_L180"
    /\ \E ok \in (IF det.cap = "open" THEN BOOLEAN ELSE {FALSE}) :
          /\ det' = [det EXCEPT !.now = dclock]
          /\ dg' = [dg EXCEPT
                      !.readGapOk =
                          @ /\ (dg.lastFailed =>
                                  dclock - dg.lastReadAt >=
                                      IF dg.iter = "reconnect" THEN dg.delay
                                                               ELSE RetryPause),
                      !.lastFailed = ~ok,
                      !.lastReadAt = dclock]
          /\ dpc' = IF ok THEN "d_L207" ELSE "d_L184"
    /\ UNCHANGED << dclock, wd >>
    /\ DetFrame

\* detector.py:184-190: fail_reads += 1; need_reopen = stalled or
\* fail_reads >= self.max_fail_reads or self._reopen_request
d_L184 ==
    /\ dpc = "d_L184"
    /\ LET fail_reads  == det.fail_reads + 1
           need_reopen == \/ det.now - det.last_ok > dcfg.stall
                          \/ fail_reads >= dcfg.max_fail_reads
                          \/ det.reopen_request
       IN  /\ det' = [det EXCEPT !.fail_reads = fail_reads]
           /\ dpc' = IF need_reopen THEN "d_L191" ELSE "d_L203"
    /\ UNCHANGED << dclock, wd, dg >>
    /\ DetFrame

\* detector.py:191-195: self._reopen_request = False; cap.release()
d_L191 ==
    /\ dpc = "d_L191"
    /\ det' = [det EXCEPT !.reopen_request = FALSE, !.cap = "none"]
    /\ dpc' = "d_L196"
    /\ UNCHANGED << dclock, wd, dg >>
    /\ DetFrame

\* detector.py:196: time.sleep(backoff) begins
d_L196 ==
    /\ dpc = "d_L196"
    /\ det' = [det EXCEPT !.wake = dclock + det.backoff]
    /\ dg' = [dg EXCEPT !.k = @ + 1, !.delay = det.backoff]
    /\ dpc' = "d_L197"
    /\ UNCHANGED << dclock, wd >>
    /\ DetFrame

\* The reconnect without the cap on the doubled backoff (mutation of d_L197).
d_L197NoCap ==
    /\ dpc = "d_L197" /\ dclock >= det.wake
    /\ \E cap \in CapStates :
          det' = [det EXCEPT !.cap = cap, !.last_ok = dclock, !.fail_reads = 0,
                             !.backoff = det.backoff * 2]
    /\ dg' = [EndIteration(dg, "reconnect", det.reopen_request) EXCEPT
                 !.reopens = 1,
                 !.reopenGapOk = @ /\ dclock - dg.lastReadAt >= det.backoff]
    /\ dpc' = "d_L180"
    /\ UNCHANGED << dclock, wd >>
    /\ DetFrame

\* detector.py:197-201: the sleep is over; cap = reopen(None);
\* last_ok = time.time(); fail_reads = 0;
\* backoff = min(backoff * 2.0, self.backoff_max); continue
d_L197 ==
    /\ dpc = "d_L197" /\ dclock >= det.wake
    /\ \E cap \in CapStates :
          det' = [det EXCEPT !.cap = cap, !.last_ok = dclock, !.fail_reads = 0,
                             !.backoff = Min2(det.backoff * 2, dcfg.backoff_max)]
    /\ dg' = [EndIteration(dg, "reconnect", det.reopen_request) EXCEPT
                 !.reopens = 1,
                 !.reopenGapOk = @ /\ dclock - dg.lastReadAt >= det.backoff]
    /\ dpc' = "d_L180"
    /\ UNCHANGED << dclock, wd >>
    /\ DetFrame

\* The retry path without its pause (mutation of d_L203).
d_L203NoPause ==
    /\ dpc = "d_L203"
    /\ det' = [det EXCEPT !.wake = dclock]
    /\ dpc' = "d_L204"
    /\ UNCHANGED << dclock, wd, dg >>
    /\ DetFrame

\* detector.py:203: time.sleep(0.2) begins
d_L203 ==
    /\ dpc = "d_L203"
    /\ det' = [det EXCEPT !.wake = dclock + RetryPause]
    /\ dpc' = "d_L204"
    /\ UNCHANGED << dclock, wd, dg >>
    /\ DetFrame

\* detector.py:204: the sleep is over; continue
d_L204 ==
    /\ dpc = "d_L204" /\ dclock >= det.wake
    /\ dg' = EndIteration(dg, "retry", det.reopen_request)
    /\ dpc' = "d_L180"
    /\ UNCHANGED << dclock, det, wd >>
    /\ DetFrame

\* detector.py:207-247: a frame was read: self.last_frame_ts = now;
\* last_ok = now; fail_reads = 0; backoff = self.backoff_init; the frame is
\* skipped or run through the model, its detections are yielded, and the
\* loop goes on.
d_L207 ==
    /\ dpc = "d_L207"
    /\ det' = [det EXCEPT !.last_frame_ts = det.now, !.last_ok = det.now,
                          !.fail_reads = 0, !.backoff = dcfg.backoff_init]
    /\ dg' = [EndIteration(dg, "ok", det.reopen_request) EXCEPT !.k = 0]
    /\ dpc' = "d_L180"
    /\ UNCHANGED << dclock, wd >>
    /\ DetFrame

\* main.py:195-198: the watchdog finds the last frame older than
\* WATCHDOG_STALL_SEC.  The alert cooldown (180 s) lets it do so once within
\* the time modelled.
wd_L195 ==
    /\ dpc # "" /\ wd.pc = "wd_L195" /\ ~wd.alerted
    /\ LET last_ts == det.last_frame_ts
           age     == IF last_ts > 0 THEN dclock - last_ts ELSE dclock - DetStart
       IN  age >= dcfg.wd_stall
    /\ wd' = [wd EXCEPT !.pc = "wd_L209"]
    /\ UNCHANGED << dclock, dpc, det, dg >>
    /\ DetFrame

\* main.py:207-213 with detector.py:113-115: detector.request_reopen():
\* self._reopen_request = True
wd_L209 ==
    /\ dpc # "" /\ wd.pc = "wd_L209"
    /\ det' = [det EXCEPT !.reopen_request = TRUE]
    /\ wd' = [pc |-> "wd_L195", alerted |-> TRUE]
    /\ UNCHANGED << dclock, dpc, dg >>
    /\ DetFrame

NextDetector ==
    \/ DTick
    \/ d_L169
    \/ d_L171
    \/ d_L172
    \/ d_L174
    \/ d_L180
    \/ d_L184
    \/ d_L191
    \/ d_L196
    \/ d_L197
    \/ d_L203
    \/ d_L204
    \/ d_L207
    \/ wd_L195
    \/ wd_L209

SpecDetector == InitDetector /\ [][NextDetector]_vars

\* --------------------------------------------------- SpecDetector: claims
RECURSIVE Pow2(_)
Pow2(n) == IF n = 0 THEN 1 ELSE 2 * Pow2(n - 1)

\* backoff is assigned (detector.py:177) before the loop is entered.
InReadLoop == dpc \notin {"", "d_L169", "d_L171", "d_L172", "d_L174"}

\* C15 (as claimed): in an iteration whose read failed the detector
\* reconnects exactly when the time since the last successful read exceeds
\* the stall threshold, or the count of consecutive failed reads (this one
\* included) exceeds max_fail_reads, or a reopen was requested; otherwise
\* it pauses and retries.
C15_ReconnectExactlyWhen ==
    [][(dpc = "d_L184" /\ dpc' # dpc) =>
          /\ dpc' \in {"d_L191", "d_L203"}
          /\ dpc' = "d_L191" <=>
                \/ det.now - det.last_ok > dcfg.stall
                \/ det'.fail_reads > dcfg.max_fail_reads
                \/ det.reopen_request]_vars

\* C16 (as claimed): an iteration of the read loop that begins with a
\* reopen request pending performs a reconnect, whether its read succeeds
\* or not.
C16_RequestHonoured ==
    (dpc # "" /\ dg.iter # "none" /\ dg.lastIterReq) => dg.iter = "reconnect"

\* The delay of the k-th consecutive reconnect and the range of backoff.
BackoffSchedule ==
    /\ dg.k >= 1 =>
          dg.delay = Min2(dcfg.backoff_init * Pow2(dg.k - 1), dcfg.backoff_max)
    /\ (InReadLoop /\ dg.k = 0) => det.backoff = dcfg.backoff_init
    /\ (InReadLoop /\ dcfg.backoff_init <= dcfg.backoff_max) =>
          /\ dcfg.backoff_init <= det.backoff
          /\ det.backoff <= dcfg.backoff_max

C18_NoBusyLoop ==
    dpc # "" =>
        /\ dg.readGapOk
        /\ dg.reopenGapOk
        /\ dpc \in {"d_L169", "d_L171", "d_L172", "d_L174", "d_L180", "d_L184",
                    "d_L191", "d_L196", "d_L197", "d_L203", "d_L204", "d_L207"}
        /\ dg.lastFailed => dpc # "d_L207"

\* C18 witness: a read has returned after a failed read and a retry pause,
\* and an earlier reopen followed a failed first open.
C18_Witness ==
    /\ dpc \in {"d_L184", "d_L207"}
    /\ dg.iter = "retry"
    /\ dg.reopens = 1
    /\ dg.lastReadAt > DetStart + dcfg.backoff_init

\* ------------------------ SpecWatchdog: the watchdog thread and its alerts
\* _watchdog_loop of run() by itself: the detector is what sets
\* last_frame_ts at each frame it reads and clears the reopen request at
\* each reconnect.  Time is in seconds.

\* WATCHDOG_STALL_SEC, WATCHDOG_ALERT_COOLDOWN_SEC, WATCHDOG_EAGER_REOPEN
\* (main.py:181-184, environment variables).
WdConfigs ==
    { [stall |-> 2, cooldown |-> 3, eager_reopen |-> TRUE],
      [stall |-> 2, cooldown |-> 4, eager_reopen |-> FALSE] }

\* main.py:186-189 and detector.py:108-109.  wd_last_alert["ts"] starts at
\* 0.0, the epoch, which lies more than a cooldown before start_ts: the
\* first alert is never held back.  count is wd_reconnects["count"];
\* prev_alert is the poll of the alert before the last, sent and prev_sent
\* are the outcomes of the last two sends.
InitWatchdog ==
    /\ \E cfg \in WdConfigs :
           ww = [cfg |-> cfg, clock |-> DetStart, pc |-> "w_L198",
                 last_frame_ts |-> 0, reopen_request |-> FALSE,
                 now |-> 0, last_alert |-> DetStart - cfg.cooldown,
                 prev_alert |-> 0, count |-> 0,
                 sent |-> TRUE, prev_sent |-> TRUE]
    /\ wk = << >> /\ sd = << >> /\ rc = << >> /\ xc = << >>
    /\ fs = << >> /\ hk = << >>
    /\ MergerIdle
    /\ PairIdle
    /\ PipeIdle
    /\ ClipIdle
    /\ DetIdle
    /\ FilterIdle

WatchdogFrame ==
    UNCHANGED << mergerVars, pairVars, pipeVars, clipVars, detVars, filterVars,
                 wk, sd, rc, xc, fs, hk >>

\* Time passes.
WTick ==
    /\ ww # << >> /\ ww.clock < MaxWdClock
    /\ ww' = [ww EXCEPT !.clock = @ + 1]
    /\ WatchdogFrame

\* detector.py:207: the detector has read a frame: self.last_frame_ts = now
WFrameRead ==
    /\ ww # << >> /\ ww.last_frame_ts # ww.clock
    /\ ww' = [ww EXCEPT !.last_frame_ts = ww.clock]
    /\ WatchdogFrame

\* detector.py:191: the detector reconnects: self._reopen_request = False
WReconnect ==
    /\ ww # << >> /\ ww.reopen_request
    /\ ww' = [ww EXCEPT !.reopen_request = FALSE]
    /\ WatchdogFrame

\* main.py:195-197: the age the watchdog computes at a poll.
WatchdogAge ==
    IF ww.last_frame_ts > 0
    THEN ww.clock - ww.last_frame_ts
    ELSE ww.clock - DetStart

\* main.py:195-202 alerting whatever the time of the last alert (mutation
\* of w_L198).
w_L198NoCooldown ==
    /\ ww # << >> /\ ww.pc = "w_L198"
    /\ WatchdogAge >= ww.cfg.stall
    /\ ww.count < MaxWdClock
    /\ ww' = [ww EXCEPT !.pc = "w_L204", !.now = ww.clock,
                        !.prev_alert = ww.now, !.count = @ + 1]
    /\ WatchdogFrame

\* main.py:195-202: a poll at which the last frame is at least
\* WATCHDOG_STALL_SEC old and the last alert at least
\* WATCHDOG_ALERT_COOLDOWN_SEC ago: the alert is counted and logged.  (At
\* any other poll the watchdog only waits for the next one.)
w_L198 ==
    /\ ww # << >> /\ ww.pc = "w_L198"
    /\ WatchdogAge >= ww.cfg.stall
    /\ ww.clock - ww.last_alert >= ww.cfg.cooldown
    /\ ww' = [ww EXCEPT !.pc = "w_L204", !.now = ww.clock,
                        !.prev_alert = ww.now, !.count = @ + 1]
    /\ WatchdogFrame

\* main.py:203-206: tele.send_text(msg) returns or raises; except: pass.
w_L204 ==
    /\ ww # << >> /\ ww.pc = "w_L204"
    /\ \E ok \in BOOLEAN :
           ww' = [ww EXCEPT !.pc = "w_L209", !.prev_sent = ww.sent, !.sent = ok]
    /\ WatchdogFrame

\* main.py:207-211 with detector.py:113-115: if WATCHDOG_EAGER_REOPEN,
\* detector.request_reopen(): self._reopen_request = True
w_L209 ==
    /\ ww # << >> /\ ww.pc = "w_L209"
    /\ ww' = [ww EXCEPT !.pc = "w_L212",
                        !.reopen_request = IF ww.cfg.eager_reopen THEN TRUE ELSE @]
    /\ WatchdogFrame

\* main.py:212-213: wd_last_alert["ts"] = now; stop_wd.wait(WATCHDOG_POLL_SEC)
w_L212 ==
    /\ ww # << >> /\ ww.pc = "w_L212"
    /\ ww' = [ww EXCEPT !.pc = "w_L198", !.last_alert = ww.now]
    /\ WatchdogFrame

NextWatchdog ==
    \/ WTick
    \/ WFrameRead
    \/ WReconnect
    \/ w_L198
    \/ w_L204
    \/ w_L209
    \/ w_L212

SpecWatchdog == InitWatchdog /\ [][NextWatchdog]_vars

\* C26: the watchdog alerts (and then requests a reopen) only at a poll
\* where the last successful frame is at least WATCHDOG_STALL_SEC old; two
\* consecutive alerts are at least WATCHDOG_ALERT_COOLDOWN_SEC apart; and
\* after an alert whose send failed the watchdog still goes through the
\* reopen request and back to polling.
C26_WatchdogRateLimit ==
    /\ [](ww.count >= 2 => ww.now - ww.prev_alert >= ww.cfg.cooldown)
    /\ [][(ww'.count # ww.count) =>
              /\ ww'.count = ww.count + 1
              /\ ww.pc = "w_L198" /\ ww'.pc = "w_L204"
              /\ ww'.now = ww.clock
              /\ WatchdogAge >= ww.cfg.stall]_vars
    /\ [][(ww'.reopen_request /\ ~ww.reopen_request) =>
              ww.pc = "w_L209" /\ ww.count >= 1]_vars
    /\ [][(ww.pc = "w_L204" /\ ww'.pc # ww.pc) => ww'.pc = "w_L209"]_vars
    /\ [][(ww.pc = "w_L209" /\ ww'.pc # ww.pc) =>
              /\ ww'.pc = "w_L212"
              /\ ww.cfg.eager_reopen => ww'.reopen_request]_vars
    /\ [][(ww.pc = "w_L212" /\ ww'.pc # ww.pc) => ww'.pc = "w_L198"]_vars

\* C26 witness: the watchdog has alerted twice, exactly a cooldown apart,
\* the send of the first alert having failed, and is polling again.
C26_Witness ==
    /\ ww.count = 2 /\ ww.pc = "w_L198"
    /\ ww.now - ww.prev_alert = ww.cfg.cooldown
    /\ ~ww.prev_sent

\* ---------------------------------------- Spec: primary loop and ticker
\* run() with its two threads that use the merger: the primary loop
\* ("main": for det in detector.stream_detect(...)) and the idle-flush
\* ticker ("tick": _flush_loop).  The merger has no lock, so its methods
\* are modelled statement by statement: every read or write of an
\* attribute shared between the threads is a step of its own, named by
\* its source line.

Threads == {"main", "tick"}

\* The configuration run() is started with (environment variables), in
\* whole seconds and kept short: MERGE_WINDOW_SECONDS, COOLDOWN_SECONDS,
\* CONFIRM_FRAMES, CONFIRM_WINDOW (0.8 s: below one second), MIN_EVENT_SECONDS,
\* POST_EVENT_SILENCE_SEC, PRE_ROLL, POST_ROLL, CLIP_SAFETY_LAG.
\* SEND_IMMEDIATE, GEMINI_ENABLE, GEMINI_ASYNC and SEND_VIDEO have their
\* defaults (yes).
PipeCfg ==
    [idle_end |-> 2, cooldown |-> 2,
     confirm_frames |-> 1, confirm_window |-> 0,
     min_event_seconds |-> 1, post_event_silence |-> 2,
     pre_roll |-> 1, post_roll |-> 1, clip_safety_lag |-> 4,
     send_immediate |-> TRUE, gemini_enable |-> TRUE,
     gemini_async |-> TRUE, send_video |-> TRUE]

\* OBJECTS_OF_INTEREST (default "person").
PipeClasses == {"person"}

NoLocals ==
    [cls |-> "", ts |-> 0, now |-> 0, ref |-> 0, top |-> << >>, em |-> << >>]

\* No call of process_emitted yet.
NoCall ==
    [fate |-> "none", first |-> 0, last |-> 0, armed_at |-> 0, armed |-> 0,
     now_ts |-> 0, t0 |-> 0, t1 |-> 0, calls |-> {}]

\* run() has started both threads.
InitPipe(settings, start) ==
    /\ pcfg = settings
    /\ clock = start
    /\ heap = << >>
    /\ mActive = 0
    /\ mCooldownUntil = 0
    /\ next_armed_ts = 0
    /\ recent = [c \in PipeClasses |-> << >>]
    /\ stop_flush = FALSE
    /\ pc = [t \in Threads |-> IF t = "main" THEN "m_L350" ELSE "f_L335"]
    /\ loc = [t \in Threads |-> NoLocals]
    /\ raised = ""
    /\ nDet = 0
    /\ emitN = << >>
    /\ procN = << >>
    /\ handled = [t \in Threads |-> NoCall]
    /\ MergerIdle
    /\ PairIdle
    /\ RestIdle

Init == InitPipe(PipeCfg, 1)

\* The process is alive until the primary thread leaves run(); the ticker
\* is a daemon thread and dies with it.
Alive(t) == pc["main"] # "m_exit" /\ pc[t] # "f_end"

\* The statements of the merger's methods.
MergerPcs ==
    {"push_L54", "push_L54b", "push_L57", "push_L58", "push_L59",
     "add_L14", "add_L15", "add_L16",
     "flush_L67", "flush_L70", "flush_L70b", "flush_L72", "flush_L73",
     "top_L19", "top_L21", "top_L22", "flush_L76", "flush_L78"}

\* Where a thread continues when flush_due returns `em`:
\* main.py:392-397 (primary loop) and main.py:338-343 (ticker).
AfterFlush(t, em) ==
    IF em = << >>
    THEN (IF t = "main" THEN "m_L350" ELSE "f_L335")
    ELSE "pe_L231"

\* An exception raised in thread t inside the loop body: the primary loop
\* has no handler but `finally` (main.py:399-401), the ticker catches it
\* and waits for its next tick (main.py:340-343).
Throw(t, kind) ==
    /\ pc' = [pc EXCEPT ![t] = IF t = "main" THEN "m_L411" ELSE "f_L335"]
    /\ loc' = [loc EXCEPT ![t] = NoLocals]
    /\ raised' = IF t = "main" THEN kind ELSE raised

\* time.time() advances.
Tick ==
    /\ clock < MaxClock
    /\ pc["main"] # "m_exit"
    /\ clock' = clock + 1
    /\ UNCHANGED << heap, mActive, mCooldownUntil, next_armed_ts, recent,
                    stop_flush, pcfg, pc, loc, raised, nDet, emitN, procN, handled >>
    /\ UNCHANGED << mergerVars, pairVars, restVars >>

\* main.py:350 with detector.py:242-247: the detector yields a detection
\* stamped with the current time.
MainDetect ==
    /\ pc["main"] = "m_L350"
    /\ nDet < MaxDet
    /\ \E cls \in PipeClasses :
           loc' = [loc EXCEPT !["main"] = [NoLocals EXCEPT !.cls = cls, !.ts = clock]]
    /\ pc' = [pc EXCEPT !["main"] = "m_L351"]
    /\ nDet' = nDet + 1
    /\ UNCHANGED << clock, heap, mActive, mCooldownUntil, next_armed_ts, recent,
                    stop_flush, pcfg, raised, emitN, procN, handled >>
    /\ UNCHANGED << mergerVars, pairVars, restVars >>

\* deque after append(ts) and popleft() while ts - dq[0] > CONFIRM_WINDOW.
Debounced(dq, ts) == PopStale(Append(dq, ts), ts, pcfg.confirm_window)

\* The loop body without the blackout check (mutation of MainFilter).
MainFilterNoBlackout ==
    /\ pc["main"] = "m_L351"
    /\ LET cls == loc["main"].cls
           ts  == loc["main"].ts
           dq  == Debounced(recent[cls], ts)
       IN  /\ recent' = [recent EXCEPT ![cls] = dq]
           /\ IF Len(dq) < pcfg.confirm_frames
              THEN /\ pc' = [pc EXCEPT !["main"] = "m_L350"]
                   /\ loc' = [loc EXCEPT !["main"] = NoLocals]
              ELSE /\ pc' = [pc EXCEPT !["main"] = "push_L54"]
                   /\ UNCHANGED loc
    /\ UNCHANGED << clock, heap, mActive, mCooldownUntil, next_armed_ts,
                    stop_flush, pcfg, raised, nDet, emitN, procN, handled >>
    /\ UNCHANGED << mergerVars, pairVars, restVars >>

\* main.py:351-387: blackout check, then debounce; a confirmed detection
\* goes on to merger.push(cls, ts).
MainFilter ==
    /\ pc["main"] = "m_L351"
    /\ LET cls == loc["main"].cls
           ts  == loc["main"].ts
           dq  == Debounced(recent[cls], ts)
       IN  IF clock < next_armed_ts
           THEN /\ pc' = [pc EXCEPT !["main"] = "m_L350"]
                /\ loc' = [loc EXCEPT !["main"] = NoLocals]
                /\ UNCHANGED recent
           ELSE /\ recent' = [recent EXCEPT ![cls] = dq]
                /\ IF Len(dq) < pcfg.confirm_frames
                   THEN /\ pc' = [pc EXCEPT !["main"] = "m_L350"]
                        /\ loc' = [loc EXCEPT !["main"] = NoLocals]
                   ELSE /\ pc' = [pc EXCEPT !["main"] = "push_L54"]
                        /\ UNCHANGED loc
    /\ UNCHANGED << clock, heap, mActive, mCooldownUntil, next_armed_ts,
                    stop_flush, pcfg, raised, nDet, emitN, procN, handled >>
    /\ UNCHANGED << mergerVars, pairVars, restVars >>

\* What a merger step leaves alone besides the merger and the thread.
MergerFrame ==
    /\ UNCHANGED << clock, next_armed_ts, recent, stop_flush, pcfg, nDet, procN, handled >>
    /\ UNCHANGED << mergerVars, pairVars, restVars >>

\* push() returns None and the caller passes time.time() instead of ts to
\* flush_due (mutation of PushReturn).
PushReturnWallClock(t) ==
    /\ pc' = [pc EXCEPT ![t] = "flush_L67"]
    /\ loc' = [loc EXCEPT ![t].now = clock, ![t].ref = 0]

\* push() returns None; main.py:390-392 then calls merger.flush_due(ts).
PushReturn(t) ==
    /\ pc' = [pc EXCEPT ![t] = "flush_L67"]
    /\ loc' = [loc EXCEPT ![t].now = loc[t].ts, ![t].ref = 0]

\* event_merger.py:54, first operand: ts < self._cooldown_until
push_L54(t) ==
    /\ pc[t] = "push_L54" /\ Alive(t)
    /\ pc' = [pc EXCEPT ![t] = IF loc[t].ts < mCooldownUntil
                               THEN "push_L54b" ELSE "push_L57"]
    /\ UNCHANGED << heap, mActive, mCooldownUntil, loc, raised, emitN >>
    /\ MergerFrame

\* event_merger.py:54-55, second operand: self._active is None -> return
push_L54b(t) ==
    /\ pc[t] = "push_L54b" /\ Alive(t)
    /\ IF mActive = 0
       THEN PushReturn(t)
       ELSE /\ pc' = [pc EXCEPT ![t] = "push_L57"]
            /\ UNCHANGED loc
    /\ UNCHANGED << heap, mActive, mCooldownUntil, raised, emitN >>
    /\ MergerFrame

\* event_merger.py:57: if self._active is None
push_L57(t) ==
    /\ pc[t] = "push_L57" /\ Alive(t)
    /\ pc' = [pc EXCEPT ![t] = IF mActive = 0 THEN "push_L58" ELSE "push_L59"]
    /\ UNCHANGED << heap, mActive, mCooldownUntil, loc, raised, emitN >>
    /\ MergerFrame

\* event_merger.py:58: self._active = _ActiveEvent(ts, ts, ts, {})
push_L58(t) ==
    /\ pc[t] = "push_L58" /\ Alive(t)
    /\ heap' = Append(heap, NewActiveEvent(loc[t].ts))
    /\ emitN' = Append(emitN, 0)
    /\ mActive' = Len(heap) + 1
    /\ pc' = [pc EXCEPT ![t] = "push_L59"]
    /\ UNCHANGED << mCooldownUntil, loc, raised >>
    /\ UNCHANGED << clock, next_armed_ts, recent, stop_flush, pcfg, nDet, handled >>
    /\ procN' = Append(procN, 0)
    /\ UNCHANGED << mergerVars, pairVars, restVars >>

\* event_merger.py:59: self._active.add(...): the receiver is loaded; it
\* is None when the other thread has cleared the slot since line 57.
push_L59(t) ==
    /\ pc[t] = "push_L59" /\ Alive(t)
    /\ IF mActive = 0
       THEN Throw(t, "AttributeError")
       ELSE /\ pc' = [pc EXCEPT ![t] = "add_L14"]
            /\ loc' = [loc EXCEPT ![t].ref = mActive]
            /\ UNCHANGED raised
    /\ UNCHANGED << heap, mActive, mCooldownUntil, emitN >>
    /\ MergerFrame

\* event_merger.py:14: self.last_ts = ts
add_L14(t) ==
    /\ pc[t] = "add_L14" /\ Alive(t)
    /\ heap' = [heap EXCEPT ![loc[t].ref].last_ts = loc[t].ts]
    /\ pc' = [pc EXCEPT ![t] = "add_L15"]
    /\ UNCHANGED << mActive, mCooldownUntil, loc, raised, emitN >>
    /\ MergerFrame

\* event_merger.py:15: self.last_det_ts = ts
add_L15(t) ==
    /\ pc[t] = "add_L15" /\ Alive(t)
    /\ heap' = [heap EXCEPT ![loc[t].ref].last_det_ts = loc[t].ts]
    /\ pc' = [pc EXCEPT ![t] = "add_L16"]
    /\ UNCHANGED << mActive, mCooldownUntil, loc, raised, emitN >>
    /\ MergerFrame

\* event_merger.py:16: self.counts[cls] = self.counts.get(cls, 0) + 1
add_L16(t) ==
    /\ pc[t] = "add_L16" /\ Alive(t)
    /\ LET ev == heap[loc[t].ref]
       IN  heap' = [heap EXCEPT ![loc[t].ref].counts =
                       DictPut(ev.counts, loc[t].cls, DictGet(ev.counts, loc[t].cls) + 1)]
    /\ PushReturn(t)
    /\ UNCHANGED << mActive, mCooldownUntil, raised, emitN >>
    /\ MergerFrame

\* flush_due() returns `em` to its caller.
FlushReturn(t, em) ==
    /\ pc' = [pc EXCEPT ![t] = AfterFlush(t, em)]
    /\ loc' = [loc EXCEPT ![t] = [NoLocals EXCEPT !.em = em]]

\* event_merger.py:67-68: if self._active is None: return None
flush_L67(t) ==
    /\ pc[t] = "flush_L67" /\ Alive(t)
    /\ IF mActive = 0
       THEN FlushReturn(t, << >>)
       ELSE /\ pc' = [pc EXCEPT ![t] = "flush_L70"]
            /\ UNCHANGED loc
    /\ UNCHANGED << heap, mActive, mCooldownUntil, raised, emitN >>
    /\ MergerFrame

\* event_merger.py:70: self._active is loaded again (None raises on the
\* attribute access that follows)
flush_L70(t) ==
    /\ pc[t] = "flush_L70" /\ Alive(t)
    /\ IF mActive = 0
       THEN Throw(t, "AttributeError")
       ELSE /\ pc' = [pc EXCEPT ![t] = "flush_L70b"]
            /\ loc' = [loc EXCEPT ![t].ref = mActive]
            /\ UNCHANGED raised
    /\ UNCHANGED << heap, mActive, mCooldownUntil, emitN >>
    /\ MergerFrame

\* event_merger.py:70-71,81: gap = now_ts - <event>.last_det_ts;
\* if gap >= self.idle_end ... else return None
flush_L70b(t) ==
    /\ pc[t] = "flush_L70b" /\ Alive(t)
    /\ IF loc[t].now - heap[loc[t].ref].last_det_ts >= pcfg.idle_end
       THEN /\ pc' = [pc EXCEPT ![t] = "flush_L72"]
            /\ loc' = [loc EXCEPT ![t].ref = 0]
       ELSE FlushReturn(t, << >>)
    /\ UNCHANGED << heap, mActive, mCooldownUntil, raised, emitN >>
    /\ MergerFrame

\* event_merger.py:72: ev = self._active
flush_L72(t) ==
    /\ pc[t] = "flush_L72" /\ Alive(t)
    /\ loc' = [loc EXCEPT ![t].ref = mActive]
    /\ pc' = [pc EXCEPT ![t] = "flush_L73"]
    /\ UNCHANGED << heap, mActive, mCooldownUntil, raised, emitN >>
    /\ MergerFrame

\* flush_due() that leaves the closed event in the slot (mutation of flush_L73).
flush_L73Keep(t) ==
    /\ pc[t] = "flush_L73" /\ Alive(t)
    /\ pc' = [pc EXCEPT ![t] = "top_L19"]
    /\ UNCHANGED << heap, mActive, mCooldownUntil, loc, raised, emitN >>
    /\ MergerFrame

\* event_merger.py:73: self._active = None
flush_L73(t) ==
    /\ pc[t] = "flush_L73" /\ Alive(t)
    /\ mActive' = 0
    /\ pc' = [pc EXCEPT ![t] = "top_L19"]
    /\ UNCHANGED << heap, mCooldownUntil, loc, raised, emitN >>
    /\ MergerFrame

\* event_merger.py:74 and 19-20: ev.top_cls(); if not self.counts:
\* return ("unknown", 0)
top_L19(t) ==
    /\ pc[t] = "top_L19" /\ Alive(t)
    /\ IF loc[t].ref = 0
       THEN Throw(t, "AttributeError")
       ELSE /\ IF heap[loc[t].ref].counts = << >>
               THEN /\ loc' = [loc EXCEPT ![t].top = << [cls |-> "unknown", count |-> 0] >>]
                    /\ pc' = [pc EXCEPT ![t] = "flush_L76"]
               ELSE /\ pc' = [pc EXCEPT ![t] = "top_L21"]
                    /\ UNCHANGED loc
            /\ UNCHANGED raised
    /\ UNCHANGED << heap, mActive, mCooldownUntil, emitN >>
    /\ MergerFrame

\* event_merger.py:21: cls = max(self.counts, key=self.counts.get)
top_L21(t) ==
    /\ pc[t] = "top_L21" /\ Alive(t)
    /\ loc' = [loc EXCEPT ![t].top =
                  << [cls |-> DictMaxKey(heap[loc[t].ref].counts), count |-> 0] >>]
    /\ pc' = [pc EXCEPT ![t] = "top_L22"]
    /\ UNCHANGED << heap, mActive, mCooldownUntil, raised, emitN >>
    /\ MergerFrame

\* event_merger.py:22: return cls, self.counts.get(cls, 0)
top_L22(t) ==
    /\ pc[t] = "top_L22" /\ Alive(t)
    /\ loc' = [loc EXCEPT ![t].top =
                  << [cls |-> loc[t].top[1].cls,
                      count |-> DictGet(heap[loc[t].ref].counts, loc[t].top[1].cls)] >>]
    /\ pc' = [pc EXCEPT ![t] = "flush_L76"]
    /\ UNCHANGED << heap, mActive, mCooldownUntil, raised, emitN >>
    /\ MergerFrame

\* event_merger.py:75-76: out = _EventOut(...);
\* t_first, t_last = ev.start_ts, ev.last_det_ts
flush_L76(t) ==
    /\ pc[t] = "flush_L76" /\ Alive(t)
    /\ LET ev == heap[loc[t].ref]
       IN  loc' = [loc EXCEPT ![t].em =
                      << [id |-> loc[t].ref,
                          first |-> ev.start_ts, last |-> ev.last_det_ts,
                          cls |-> loc[t].top[1].cls, count |-> loc[t].top[1].count] >>]
    /\ pc' = [pc EXCEPT ![t] = "flush_L78"]
    /\ UNCHANGED << heap, mActive, mCooldownUntil, raised, emitN >>
    /\ MergerFrame

\* event_merger.py:78-79: self._cooldown_until = now_ts + self.cooldown;
\* return (t_first, t_last, out)
flush_L78(t) ==
    /\ pc[t] = "flush_L78" /\ Alive(t)
    /\ mCooldownUntil' = loc[t].now + pcfg.cooldown
    /\ emitN' = [emitN EXCEPT ![loc[t].em[1].id] = @ + 1]
    /\ FlushReturn(t, loc[t].em)
    /\ UNCHANGED << heap, mActive, raised >>
    /\ MergerFrame

\* main.py:335: while not stop_flush.is_set()
f_L335 ==
    /\ pc["tick"] = "f_L335" /\ Alive("tick")
    /\ pc' = [pc EXCEPT !["tick"] = IF stop_flush THEN "f_end" ELSE "f_L337"]
    /\ UNCHANGED << heap, mActive, mCooldownUntil, loc, raised, emitN >>
    /\ MergerFrame

\* main.py:337 with the time the ticker was started at in the place of
\* time.time() (mutation of f_L337).
f_L337StartTime ==
    /\ pc["tick"] = "f_L337" /\ Alive("tick")
    /\ loc' = [loc EXCEPT !["tick"] = [NoLocals EXCEPT !.now = 0]]
    /\ pc' = [pc EXCEPT !["tick"] = "flush_L67"]
    /\ UNCHANGED << heap, mActive, mCooldownUntil, raised, emitN >>
    /\ MergerFrame

\* main.py:337: emitted = merger.flush_due(time.time())
f_L337 ==
    /\ pc["tick"] = "f_L337" /\ Alive("tick")
    /\ loc' = [loc EXCEPT !["tick"] = [NoLocals EXCEPT !.now = clock]]
    /\ pc' = [pc EXCEPT !["tick"] = "flush_L67"]
    /\ UNCHANGED << heap, mActive, mCooldownUntil, raised, emitN >>
    /\ MergerFrame

\* ------------------------------------------------ Spec: process_emitted

\* The statements of process_emitted.
PePcs ==
    {"pe_L231", "pe_L244", "pe_L258", "pe_L263", "pe_L270", "pe_L283",
     "pe_L288", "pe_L295", "pe_L323", "pe_L330"}

\* What a step of process_emitted leaves alone besides next_armed_ts and
\* the thread.
PeFrame ==
    /\ UNCHANGED << clock, heap, mActive, mCooldownUntil, recent, stop_flush, pcfg,
                    raised, nDet, emitN >>
    /\ UNCHANGED << mergerVars, pairVars, restVars >>

\* process_emitted returns: to the for loop (main.py:397 -> 350) or to the
\* ticker's wait (main.py:339 -> 343 -> 335).
PeReturn(t) ==
    /\ pc' = [pc EXCEPT ![t] = IF t = "main" THEN "m_L350" ELSE "f_L335"]
    /\ loc' = [loc EXCEPT ![t] = NoLocals]

PeGoto(t, to) ==
    /\ pc' = [pc EXCEPT ![t] = to]
    /\ UNCHANGED loc

\* process_emitted calls `what` for the event it is handling.
Calls(t, what) == [handled[t] EXCEPT !.calls = @ \cup {what}]

\* The call ends with `fate`, having called `what`.
Ends(t, what, fate) == [Calls(t, what) EXCEPT !.fate = fate]

\* main.py:230-241 without the return of the short event (mutation of
\* pe_L231).
pe_L231NoSkip(t) ==
    /\ pc[t] = "pe_L231" /\ Alive(t)
    /\ LET em  == loc[t].em[1]
           dur == Max2(0, em.last - em.first)
           arm == IF dur < pcfg.min_event_seconds
                  THEN clock + Min2(pcfg.post_event_silence, 2)
                  ELSE clock + pcfg.post_event_silence
       IN  /\ procN' = [procN EXCEPT ![em.id] = @ + 1]
           /\ next_armed_ts' = arm
           /\ handled' = [handled EXCEPT ![t] =
                  [NoCall EXCEPT !.fate = "running", !.first = em.first,
                      !.last = em.last, !.armed_at = clock, !.armed = arm]]
           /\ PeGoto(t, "pe_L244")
    /\ PeFrame

\* main.py:230-241: a short event only arms the short blackout and
\* returns; otherwise the full blackout is armed.
pe_L231(t) ==
    /\ pc[t] = "pe_L231" /\ Alive(t)
    /\ LET em  == loc[t].em[1]
           dur == Max2(0, em.last - em.first)
           new == [NoCall EXCEPT !.first = em.first, !.last = em.last,
                                 !.armed_at = clock]
       IN  /\ procN' = [procN EXCEPT ![em.id] = @ + 1]
           /\ IF dur < pcfg.min_event_seconds
              THEN LET arm == clock + Min2(pcfg.post_event_silence, 2)
                   IN  /\ next_armed_ts' = arm
                       /\ handled' = [handled EXCEPT ![t] =
                              [new EXCEPT !.fate = "short", !.armed = arm]]
                       /\ PeReturn(t)
              ELSE LET arm == clock + pcfg.post_event_silence
                   IN  /\ next_armed_ts' = arm
                       /\ handled' = [handled EXCEPT ![t] =
                              [new EXCEPT !.fate = "running", !.armed = arm]]
                       /\ PeGoto(t, "pe_L244")
    /\ PeFrame

\* main.py:244-250 going on to make_clip whatever the window (mutation of
\* pe_L244).
pe_L244NoSkip(t) ==
    /\ pc[t] = "pe_L244" /\ Alive(t)
    /\ LET t0 == Max2(0, handled[t].first - pcfg.pre_roll)
           t1 == Min2(handled[t].last + pcfg.post_roll,
                      clock - pcfg.clip_safety_lag)
       IN  /\ handled' = [handled EXCEPT ![t] =
                  [@ EXCEPT !.now_ts = clock, !.t0 = t0, !.t1 = t1]]
           /\ PeGoto(t, "pe_L258")
    /\ UNCHANGED << next_armed_ts, procN >>
    /\ PeFrame

\* main.py:244-250 without the clamp to now_ts - CLIP_SAFETY_LAG (mutation
\* of pe_L244).
pe_L244NoClamp(t) ==
    /\ pc[t] = "pe_L244" /\ Alive(t)
    /\ LET t0 == Max2(0, handled[t].first - pcfg.pre_roll)
           t1 == handled[t].last + pcfg.post_roll
       IN  /\ handled' = [handled EXCEPT ![t] =
                  [@ EXCEPT !.now_ts = clock, !.t0 = t0, !.t1 = t1,
                            !.fate = IF t1 <= t0 THEN "empty" ELSE @]]
           /\ IF t1 <= t0 THEN PeReturn(t) ELSE PeGoto(t, "pe_L258")
    /\ UNCHANGED << next_armed_ts, procN >>
    /\ PeFrame

\* main.py:244-250: now_ts = time.time(); the clip window, clamped to
\* now_ts - CLIP_SAFETY_LAG; an empty window ends the handling.
pe_L244(t) ==
    /\ pc[t] = "pe_L244" /\ Alive(t)
    /\ LET t0 == Max2(0, handled[t].first - pcfg.pre_roll)
           t1 == Min2(handled[t].last + pcfg.post_roll,
                      clock - pcfg.clip_safety_lag)
       IN  /\ handled' = [handled EXCEPT ![t] =
                  [@ EXCEPT !.now_ts = clock, !.t0 = t0, !.t1 = t1,
                            !.fate = IF t1 <= t0 THEN "empty" ELSE @]]
           /\ IF t1 <= t0 THEN PeReturn(t) ELSE PeGoto(t, "pe_L258")
    /\ UNCHANGED << next_armed_ts, procN >>
    /\ PeFrame

\* main.py:256-261: rb.make_clip(t0, t1, clip_full) returns or raises.
pe_L258(t) ==
    /\ pc[t] = "pe_L258" /\ Alive(t)
    /\ handled' = [handled EXCEPT ![t] = Calls(t, "make_clip")]
    /\ \E ok \in BOOLEAN : PeGoto(t, IF ok THEN "pe_L270" ELSE "pe_L263")
    /\ UNCHANGED << next_armed_ts, procN >>
    /\ PeFrame

\* main.py:262-266 without the return: the handling goes on after the
\* alert of a failed clip (mutation of pe_L263).
pe_L263NoReturn(t) ==
    /\ pc[t] = "pe_L263" /\ Alive(t)
    /\ handled' = [handled EXCEPT ![t] = Ends(t, "clip_alert", "clipfail")]
    /\ \E ok \in BOOLEAN : PeGoto(t, "pe_L270")
    /\ UNCHANGED << next_armed_ts, procN >>
    /\ PeFrame

\* main.py:262-266: the alert of a failed clip, itself in try/except: pass;
\* then return.
pe_L263(t) ==
    /\ pc[t] = "pe_L263" /\ Alive(t)
    /\ handled' = [handled EXCEPT ![t] = Ends(t, "clip_alert", "clipfail")]
    /\ \E ok \in BOOLEAN : PeReturn(t)
    /\ UNCHANGED << next_armed_ts, procN >>
    /\ PeFrame

\* main.py:270-277: the preliminary text, in try/except: pass.
pe_L270(t) ==
    /\ pc[t] = "pe_L270" /\ Alive(t)
    /\ IF pcfg.send_immediate
       THEN /\ handled' = [handled EXCEPT ![t] = Calls(t, "send_text")]
            /\ \E ok \in BOOLEAN : PeGoto(t, "pe_L283")
       ELSE /\ UNCHANGED handled
            /\ PeGoto(t, "pe_L283")
    /\ UNCHANGED << next_armed_ts, procN >>
    /\ PeFrame

\* main.py:282-286: make_gemini_lite returns or raises.
pe_L283(t) ==
    /\ pc[t] = "pe_L283" /\ Alive(t)
    /\ handled' = [handled EXCEPT ![t] = Calls(t, "make_gemini_lite")]
    /\ \E ok \in BOOLEAN : PeGoto(t, IF ok THEN "pe_L295" ELSE "pe_L288")
    /\ UNCHANGED << next_armed_ts, procN >>
    /\ PeFrame

\* main.py:287-291: the alert of a failed compression, in try/except: pass.
pe_L288(t) ==
    /\ pc[t] = "pe_L288" /\ Alive(t)
    /\ handled' = [handled EXCEPT ![t] = Calls(t, "lite_alert")]
    /\ \E ok \in BOOLEAN : PeGoto(t, "pe_L295")
    /\ UNCHANGED << next_armed_ts, procN >>
    /\ PeFrame

\* main.py:295-320: the summary: a worker thread is started (GEMINI_ASYNC),
\* or gem.analyze_video and the text are run here inside try/except, the
\* handler's own alert in try/except: pass.
pe_L295(t) ==
    /\ pc[t] = "pe_L295" /\ Alive(t)
    /\ IF pcfg.gemini_enable /\ ~pcfg.gemini_async
       THEN /\ handled' = [handled EXCEPT ![t] = Calls(t, "analyze_video")]
            /\ \E analyzed, sent, alerted \in BOOLEAN : PeGoto(t, "pe_L323")
       ELSE /\ handled' = [handled EXCEPT ![t] =
                   IF pcfg.gemini_enable
                   THEN Calls(t, "_spawn_gemini_worker") ELSE @]
            /\ PeGoto(t, "pe_L323")
    /\ UNCHANGED << next_armed_ts, procN >>
    /\ PeFrame

\* main.py:323-328: tele.send_video returns or raises.
pe_L323(t) ==
    /\ pc[t] = "pe_L323" /\ Alive(t)
    /\ IF pcfg.send_video
       THEN \E ok \in BOOLEAN :
                IF ok
                THEN /\ handled' = [handled EXCEPT ![t] =
                            Ends(t, "send_video", "done")]
                     /\ PeReturn(t)
                ELSE /\ handled' = [handled EXCEPT ![t] =
                            Calls(t, "send_video")]
                     /\ PeGoto(t, "pe_L330")
       ELSE /\ handled' = [handled EXCEPT ![t] =
                   [@ EXCEPT !.fate = "done"]]
            /\ PeReturn(t)
    /\ UNCHANGED << next_armed_ts, procN >>
    /\ PeFrame

\* main.py:329-332: the alert of a failed video, in try/except: pass.
pe_L330(t) ==
    /\ pc[t] = "pe_L330" /\ Alive(t)
    /\ handled' = [handled EXCEPT ![t] = Ends(t, "video_alert", "done")]
    /\ \E ok \in BOOLEAN : PeReturn(t)
    /\ UNCHANGED << next_armed_ts, procN >>
    /\ PeFrame

\* ------------------------------------------------------- Spec: shutdown
\* The statements of the primary thread inside run()'s try block.
MainTryPcs == {"m_L350", "m_L351"} \cup MergerPcs \cup PePcs

\* main.py:399-401: the shutdown signal (KeyboardInterrupt) reaches the
\* primary thread, wherever it is in the loop.
MainInterrupt ==
    /\ pc["main"] \in MainTryPcs
    /\ pc' = [pc EXCEPT !["main"] = "m_L411"]
    /\ loc' = [loc EXCEPT !["main"] = NoLocals]
    /\ UNCHANGED << heap, mActive, mCooldownUntil, raised, emitN >>
    /\ MergerFrame

\* main.py:401-411: finally: (the watchdog is stopped,) stop_flush.set()
m_L411 ==
    /\ pc["main"] = "m_L411"
    /\ stop_flush' = TRUE
    /\ pc' = [pc EXCEPT !["main"] = "m_L412"]
    /\ UNCHANGED << pcfg, clock, heap, mActive, mCooldownUntil, next_armed_ts, recent,
                    loc, raised, nDet, emitN, procN, handled >>
    /\ UNCHANGED << mergerVars, pairVars, restVars >>

\* main.py:412: flush_thread.join(timeout=2) returns, the ticker ended or not.
m_L412 ==
    /\ pc["main"] = "m_L412"
    /\ pc' = [pc EXCEPT !["main"] = "m_L416"]
    /\ UNCHANGED << heap, mActive, mCooldownUntil, loc, raised, emitN >>
    /\ MergerFrame

\* main.py:416-421: rb.stop(), the last message; run() returns (or the
\* pending exception leaves it) and the process exits.
m_L416 ==
    /\ pc["main"] = "m_L416"
    /\ pc' = [pc EXCEPT !["main"] = "m_exit"]
    /\ UNCHANGED << heap, mActive, mCooldownUntil, loc, raised, emitN >>
    /\ MergerFrame

\* ----------------------------------------------------------------- Spec
Next ==
    \/ Tick
    \/ MainDetect
    \/ MainFilter
    \/ MainInterrupt
    \/ m_L411
    \/ m_L412
    \/ m_L416
    \/ f_L335
    \/ f_L337
    \/ \E t \in Threads :
          \/ push_L54(t) \/ push_L54b(t) \/ push_L57(t) \/ push_L58(t)
          \/ push_L59(t) \/ add_L14(t) \/ add_L15(t) \/ add_L16(t)
          \/ flush_L67(t) \/ flush_L70(t) \/ flush_L70b(t) \/ flush_L72(t)
          \/ flush_L73(t) \/ top_L19(t) \/ top_L21(t) \/ top_L22(t)
          \/ flush_L76(t) \/ flush_L78(t)
          \/ pe_L231(t) \/ pe_L244(t) \/ pe_L258(t) \/ pe_L263(t)
          \/ pe_L270(t) \/ pe_L283(t) \/ pe_L288(t) \/ pe_L295(t)
          \/ pe_L323(t) \/ pe_L330(t)

Spec == Init /\ [][Next]_vars

\* ----------------------------------------------------------- SpecNoMerge
\* run() started with MERGE_WINDOW_SECONDS=0 and MIN_EVENT_SECONDS=0 (every
\* confirmed detection is an event of its own), CLIP_SAFETY_LAG of one
\* second, the other settings as in PipeCfg. Config.validate() and run()
\* accept these values.
PipeCfgNoMerge ==
    [PipeCfg EXCEPT !.idle_end = 0, !.min_event_seconds = 0,
                    !.clip_safety_lag = 1]

\* run() is started one second before the end of the observed time.
InitNoMerge == InitPipe(PipeCfgNoMerge, MaxClock - 1)

SpecNoMerge == InitNoMerge /\ [][Next]_vars

\* --------------------------------------------------------- SpecIdleFlush
\* The steps of the idle-flush ticker thread.
TickerStep ==
    \/ f_L335
    \/ f_L337
    \/ flush_L67("tick") \/ flush_L70("tick") \/ flush_L70b("tick")
    \/ flush_L72("tick") \/ flush_L73("tick") \/ top_L19("tick")
    \/ top_L21("tick") \/ top_L22("tick") \/ flush_L76("tick")
    \/ flush_L78("tick")
    \/ pe_L231("tick") \/ pe_L244("tick") \/ pe_L258("tick")
    \/ pe_L263("tick") \/ pe_L270("tick") \/ pe_L283("tick")
    \/ pe_L288("tick") \/ pe_L295("tick") \/ pe_L323("tick")
    \/ pe_L330("tick")

\* run() started with MIN_EVENT_SECONDS=0 and CLIP_SAFETY_LAG of one second
\* (an event of a single detection gets its clip), the other settings as in
\* PipeCfg, idle_end seconds before the end of the observed time.
PipeCfgIdleFlush ==
    [PipeCfg EXCEPT !.min_event_seconds = 0, !.clip_safety_lag = 1]

InitIdleFlush == InitPipe(PipeCfgIdleFlush, MaxClock - PipeCfg.idle_end)

\* The runs of run() in which time goes on, the ticker thread keeps being
\* scheduled (stop_flush.wait(FLUSH_TICK_SEC) returns) and the calls it
\* makes return.
SpecIdleFlush ==
    InitIdleFlush /\ [][Next]_vars /\ WF_vars(Tick) /\ WF_vars(TickerStep)

\* ------------------------------------------------------- Spec: claims
\* A thread is inside a merger method: it has run the method's first
\* statement and has not returned yet.
InsideMerger(t) == Alive(t) /\ pc[t] \in MergerPcs \ {"push_L54", "flush_L67"}

\* C1 (as claimed): the primary loop and the idle-flush ticker are never
\* both inside a merger transition.
C1_MergerMutex == ~(InsideMerger("main") /\ InsideMerger("tick"))

\* C2: whatever the interleaving of the primary loop and the ticker, with
\* idle_end > 0, no event is emitted by more than one flush_due call and
\* process_emitted is entered at most once per event.
C2_EmittedAtMostOnce ==
    /\ pcfg.idle_end > 0
    /\ \A id \in 1..Len(emitN) : emitN[id] <= 1 /\ procN[id] <= 1

\* C2 witness: two events were created, and each was emitted once and
\* handled once.
C2_Witness ==
    /\ Len(heap) = 2
    /\ \A id \in 1..2 : emitN[id] = 1 /\ procN[id] = 1

\* C3 (as claimed): nothing but the shutdown signal ends the primary loop:
\* no exception leaves process_emitted or the loop body.
C3_LoopEndsOnlyOnShutdown == raised = ""

\* C10 (as claimed): when run() exits, no event is left in the merger's
\* slot and every event that was created has been emitted.
C10_NoEventLostAtExit ==
    pc["main"] = "m_exit" =>
        /\ mActive = 0
        /\ \A id \in 1..Len(emitN) : emitN[id] >= 1

\* C19: a detection the primary loop consumes while now < next_armed_ts is
\* dropped at once: the debounce windows and the merger stay as they are,
\* no event is created, and the loop goes to the next detection.
C19_BlackoutIgnores ==
    [][(/\ pc["main"] = "m_L351"
        /\ pc'["main"] # "m_L351"
        /\ clock < next_armed_ts) =>
          /\ recent' = recent
          /\ heap' = heap
          /\ mActive' = mActive
          /\ mCooldownUntil' = mCooldownUntil
          /\ pc'["main"] \in {"m_L350", "m_L411"}]_vars

\* C19 witness: the second detection was consumed during the blackout armed
\* by the first event and left the debounce window of its class untouched.
C19_Witness ==
    /\ pc["main"] = "m_L350"
    /\ raised = ""
    /\ nDet = 2
    /\ Len(heap) = 1
    /\ clock < next_armed_ts
    /\ recent["person"] = << 1 >>

\* The event of thread t's latest process_emitted call is shorter than
\* MIN_EVENT_SECONDS.
ShortEvent(t) ==
    /\ handled[t].fate # "none"
    /\ Max2(0, handled[t].last - handled[t].first) < pcfg.min_event_seconds

\* C21: an emitted event shorter than MIN_EVENT_SECONDS is discarded:
\* process_emitted returns without extracting a clip and without any
\* notification, compression, summary or video call, and the blackout it
\* arms is the short one, never longer than the full blackout.
C21_ShortEventDiscarded ==
    \A t \in Threads :
        ShortEvent(t) =>
            /\ handled[t].fate = "short"
            /\ handled[t].calls = {}
            /\ handled[t].armed =
                   handled[t].armed_at + Min2(pcfg.post_event_silence, 2)
            /\ handled[t].armed <= handled[t].armed_at + pcfg.post_event_silence

\* C21 witness: the ticker was handed a short event, armed the short
\* blackout and returned to its loop.
C21_Witness ==
    /\ ShortEvent("tick")
    /\ handled["tick"].fate = "short"
    /\ next_armed_ts = handled["tick"].armed
    /\ pc["tick"] = "f_L335"

\* C22: whenever process_emitted requests a clip for an event
\* (first, last), with now the time it read, the range is
\* t0 = max(0, first - pre_roll), t1 = min(last + post_roll,
\* now - CLIP_SAFETY_LAG): the end exceeds neither now minus the safety lag
\* nor last + post_roll, and the full blackout was armed before the request.
C22_ClipRange ==
    \A t \in Threads :
        (pc[t] = "pe_L258" \/ "make_clip" \in handled[t].calls) =>
            LET h == handled[t]
            IN  /\ h.t0 = Max2(0, h.first - pcfg.pre_roll)
                /\ h.t1 = Min2(h.last + pcfg.post_roll,
                               h.now_ts - pcfg.clip_safety_lag)
                /\ h.t1 <= h.now_ts - pcfg.clip_safety_lag
                /\ h.t1 <= h.last + pcfg.post_roll
                /\ pc[t] = "pe_L258" => h.t1 <= clock - pcfg.clip_safety_lag
                /\ h.armed = h.armed_at + pcfg.post_event_silence
                /\ h.armed_at <= h.now_ts

\* C22 witness: a clip was requested whose end is the clamp
\* now - CLIP_SAFETY_LAG, below last + post_roll.
C22_Witness ==
    \E t \in Threads :
        /\ "make_clip" \in handled[t].calls
        /\ handled[t].t1 = handled[t].now_ts - pcfg.clip_safety_lag
        /\ handled[t].t1 < handled[t].last + pcfg.post_roll

\* Thread t's latest process_emitted call has computed its clip range.
RangeComputed(t) == handled[t].now_ts > 0

\* C23: a clip is requested only for a range with t1 > t0; an event whose
\* clamped range has t1 <= t0 is skipped without a call of make_clip,
\* without an alert and without any notification, summary or video call.
C23_EmptyRangeSkipped ==
    \A t \in Threads :
        /\ (pc[t] = "pe_L258" \/ "make_clip" \in handled[t].calls) =>
               handled[t].t1 > handled[t].t0
        /\ (RangeComputed(t) /\ handled[t].t1 <= handled[t].t0) =>
               /\ handled[t].fate = "empty"
               /\ handled[t].calls = {}
               /\ pc[t] \notin PePcs \ {"pe_L231"}

\* C23 witness: the ticker computed an empty range for an event that was
\* long enough, and returned to its loop having called nothing.
C23_Witness ==
    /\ RangeComputed("tick")
    /\ handled["tick"].t1 <= handled["tick"].t0
    /\ handled["tick"].fate = "empty"
    /\ ~ShortEvent("tick")
    /\ pc["tick"] = "f_L335"


\* The calls process_emitted makes for an event to the notifier, the
\* compressor and the analyzer (the alerts of its failures aside).
HandoffCalls ==
    {"send_text", "make_gemini_lite", "analyze_video", "send_video"}

\* C24 (as claimed): the primary-loop thread never makes a notification,
\* summary or compression call for an emitted event: every such call is
\* made by another thread.
C24_MainNeverHandsOff == handled["main"].calls \cap HandoffCalls = {}

\* Event id is the merger's active event, silent since a time the observed
\* time reaches idle_end after.
ActiveInTime(id) ==
    /\ mActive = id
    /\ id <= Len(heap)
    /\ heap[id].last_det_ts + pcfg.idle_end <= MaxClock

\* The primary loop is waiting for the detector's next detection.
MainWaits == pc["main"] = "m_L350"

\* Event id has been emitted and process_emitted entered with it.
Handed(id) == id <= Len(emitN) /\ emitN[id] >= 1 /\ procN[id] >= 1

\* C25: if an event is active and from then on the primary loop only waits
\* for a detection that never arrives, the ticker - scheduled again and
\* again, its calls returning - eventually gets the event emitted and
\* enters process_emitted with it.
C25_IdleFlushLiveness ==
    \A id \in 1..MaxDet :
        (ActiveInTime(id) /\ []MainWaits) ~> Handed(id)

\* C25 witness: the detector has yielded one detection and the primary
\* loop waits for the next; the event of that detection has been emitted
\* and handed to process_emitted by the ticker.
C25_Witness ==
    /\ nDet = 1
    /\ MainWaits
    /\ Len(heap) = 1 /\ emitN[1] = 1 /\ procN[1] = 1
    /\ handled["tick"].fate # "none"

\* --------------------------------- SpecExternal: the ffmpeg runs of a clip
\* The three places an event's handling runs ffmpeg and waits for it:
\* subprocess.run(cmd) of the stream-copy concat (ringbuffer.py:68),
\* subprocess.check_call(cmd) of the re-encoding concat (ringbuffer.py:76)
\* and subprocess.run(cmd, check=True) of make_gemini_lite (clipper.py:31),
\* called one after the other by process_emitted (main.py:258, 283) in the
\* thread `caller`.  None passes a timeout, so each call returns when, and
\* only when, its ffmpeg process has exited; nothing in the program signals
\* these processes.  An ffmpeg process exits with status 0 or non-zero, or
\* it keeps running.  `waited` holds, per run, the seconds the caller has
\* spent blocked in it, `status` the exit status the run ended with.
ExternalRuns == {"copy", "reenc", "lite"}

InitExternal ==
    /\ \E caller \in Threads :
          xc = [pc |-> "mc_L68", caller |-> caller, proc |-> "none",
                returncode |-> 0, killed |-> FALSE,
                waited |-> [r \in ExternalRuns |-> 0],
                status |-> [r \in ExternalRuns |-> "none"],
                result |-> ""]
    /\ ww = << >> /\ wk = << >> /\ sd = << >> /\ rc = << >>
    /\ fs = << >> /\ hk = << >>
    /\ MergerIdle
    /\ PairIdle
    /\ PipeIdle
    /\ ClipIdle
    /\ DetIdle
    /\ FilterIdle

ExternalFrame ==
    UNCHANGED << mergerVars, pairVars, pipeVars, clipVars, detVars, filterVars,
                 ww, wk, sd, rc, fs, hk >>

XcAt(at) == xc # << >> /\ xc.pc = at

\* The run the caller is blocked in, "" when it is in none.
XcBlockedIn ==
    IF xc = << >> THEN ""
    ELSE CASE xc.pc = "mc_L68_wait" -> "copy"
           [] xc.pc = "mc_L76_wait" -> "reenc"
           [] xc.pc = "lite_L31_wait" -> "lite"
           [] OTHER -> ""

\* subprocess.run / check_call: Popen(cmd) starts the process, then the
\* caller waits in communicate() / wait() with timeout=None.
XcStarted(at) == [xc EXCEPT !.pc = at \o "_wait", !.proc = "running"]

\* ringbuffer.py:68: r = subprocess.run(cmd): the process is started.
mc_L68Start ==
    /\ XcAt("mc_L68")
    /\ xc' = XcStarted("mc_L68")
    /\ ExternalFrame

\* ringbuffer.py:76: subprocess.check_call(cmd): the process is started.
mc_L76Start ==
    /\ XcAt("mc_L76")
    /\ xc' = XcStarted("mc_L76")
    /\ ExternalFrame

\* clipper.py:31: subprocess.run(cmd, check=True): the process is started.
lite_L31Start ==
    /\ XcAt("lite_L31")
    /\ xc' = XcStarted("lite_L31")
    /\ ExternalFrame

\* The ffmpeg process ends by itself, with exit status 0 or 1.
XcProcExits ==
    /\ xc # << >> /\ xc.proc = "running"
    /\ \E returncode \in {0, 1} :
          xc' = [xc EXCEPT !.proc = "exited", !.returncode = returncode]
    /\ ExternalFrame

\* A second passes with the caller blocked in a run (counted up to
\* MaxExtWait).
XcTick ==
    /\ XcBlockedIn # ""
    /\ xc.waited[XcBlockedIn] < MaxExtWait
    /\ xc' = [xc EXCEPT !.waited[XcBlockedIn] = @ + 1]
    /\ ExternalFrame

\* ringbuffer.py:68-69,77: run returns once the process has exited;
\* returncode 0 returns clip_path to main.py:258, anything else goes on to
\* the re-encoding.
mc_L68Return ==
    /\ XcAt("mc_L68_wait") /\ xc.proc = "exited"
    /\ xc' = IF xc.returncode # 0
             THEN [xc EXCEPT !.pc = "mc_L76", !.proc = "none",
                             !.status["copy"] = "fail"]
             ELSE [xc EXCEPT !.pc = "lite_L31", !.proc = "none",
                             !.status["copy"] = "ok", !.result = "path"]
    /\ ExternalFrame

\* ringbuffer.py:76-77: check_call returns once the process has exited and
\* raises CalledProcessError on a non-zero status; main.py:260-266 then
\* ends the handling of the event.
mc_L76Return ==
    /\ XcAt("mc_L76_wait") /\ xc.proc = "exited"
    /\ xc' = IF xc.returncode # 0
             THEN [xc EXCEPT !.pc = "done", !.proc = "none",
                             !.status["reenc"] = "fail",
                             !.result = "CalledProcessError"]
             ELSE [xc EXCEPT !.pc = "lite_L31", !.proc = "none",
                             !.status["reenc"] = "ok", !.result = "path"]
    /\ ExternalFrame

\* clipper.py:31, main.py:282-291: run returns once the process has exited;
\* a non-zero status raises CalledProcessError, which main.py catches, and
\* the handling goes on with the full clip.
lite_L31Return ==
    /\ XcAt("lite_L31_wait") /\ xc.proc = "exited"
    /\ xc' = [xc EXCEPT !.pc = "done", !.proc = "none",
                        !.status["lite"] = IF xc.returncode # 0
                                           THEN "fail" ELSE "ok"]
    /\ ExternalFrame

\* The steps of the calling thread.
XcCallerStep ==
    \/ mc_L68Start
    \/ mc_L68Return
    \/ mc_L76Start
    \/ mc_L76Return
    \/ lite_L31Start
    \/ lite_L31Return

NextExternal ==
    \/ mc_L68Start
    \/ mc_L68Return
    \/ mc_L76Start
    \/ mc_L76Return
    \/ lite_L31Start
    \/ lite_L31Return
    \/ XcProcExits
    \/ XcTick

\* The calling thread always takes its next step and time always passes;
\* an ffmpeg process need not exit.
SpecExternal ==
    InitExternal /\ [][NextExternal]_vars
        /\ WF_vars(XcCallerStep) /\ WF_vars(XcTick)

\* ---------------------------------------------------- SpecExternal: claims
\* C30 (as claimed): a hung external process cannot block its caller
\* forever: a thread blocked in the stream-copy concat, the re-encoding
\* concat or the lightweight compression always gets out of that call.
C30_ExternalCallReturns ==
    \A r \in ExternalRuns : (XcBlockedIn = r) ~> (XcBlockedIn # r)

\* ------------------------------------------------ Spec: claims, continued
\* Where a thread is when process_emitted has returned to it.
LoopHead(t) == IF t = "main" THEN "m_L350" ELSE "f_L335"

\* C31: when rb.make_clip raises for an event, the handling of that event
\* makes one attempt at the alert and nothing else (no preliminary text, no
\* compression, no summary, no video), and process_emitted returns to its
\* caller's loop without an exception.
C31_ClipFailureAborts ==
    /\ [](\A t \in Threads :
            /\ pc[t] = "pe_L263" => handled[t].calls = {"make_clip"}
            /\ handled[t].fate = "clipfail" =>
                  handled[t].calls = {"make_clip", "clip_alert"})
    /\ [][\A t \in Threads :
            (pc[t] = "pe_L263" /\ pc'[t] # "pe_L263") =>
               /\ raised' = raised
               /\ pc'[t] \in {LoopHead(t), "m_L411"}
               /\ pc'[t] = LoopHead(t) => handled'[t].fate = "clipfail"]_vars

\* C31 witness: the ticker's clip failed, the alert was attempted, and the
\* ticker is in its next call of flush_due.
C31_Witness ==
    /\ handled["tick"].fate = "clipfail"
    /\ handled["tick"].calls = {"make_clip", "clip_alert"}
    /\ pc["tick"] = "flush_L67"
    /\ raised = ""

\* ------------------------------------------- SpecWorker: claims, continued
\* C32 (as claimed): the failure of one collaborator call does not keep the
\* other collaborators of the same event from being attempted: a summary
\* worker that had a summary to report and a voice summary to make has,
\* when it ends, tried the voice synthesis, whether or not the text was
\* sent; and no exception leaves the worker.
C32_CollaboratorsIsolated ==
    /\ ~wk.escaped
    /\ (/\ wk.pc = "done" /\ wk.cfg.kind = "gemini" /\ wk.cfg.voice
        /\ "send_text" \in wk.calls)
           => "speak_to_ogg" \in wk.calls

\* ------------------------------- SpecSampling: from the read to the yield
\* The body of stream_detect's loop for one frame after another
\* (detector.py:180-247): the read, the frame stride, the motion gate, the
\* classifier and the yields.  A frame is what cap.read() returned: `ok`,
\* and for a frame that was read, `moving`: what the motion gate says about
\* it when asked.  The classifier's results hold 0..MaxBoxes boxes that pass
\* the class, area and ROI filters.  The reconnect path of a failed read is
\* SpecDetector's; here a failed read goes back to the read.
\* `last` records the frame in hand: its index among the frames read
\* successfully, whether the gate was asked, whether the classifier was run
\* and how many detections were yielded for it; `passed` counts the frames
\* the stride let through.
SamplingConfigs == [stride : 0..MaxStride, gate : BOOLEAN]

NoFrame ==
    [ok |-> FALSE, moving |-> FALSE, idx |-> 0, strided |-> FALSE,
     gate_asked |-> FALSE, classified |-> FALSE, yielded |-> 0, boxes |-> 0]

InitSampling ==
    /\ \E cfg \in SamplingConfigs :
          fs = [cfg |-> cfg, pc |-> "fs_L180", i |-> 0, reads |-> 0,
                passed |-> 0, last |-> NoFrame]
    /\ ww = << >> /\ wk = << >> /\ sd = << >> /\ rc = << >> /\ xc = << >>
    /\ hk = << >>
    /\ MergerIdle
    /\ PairIdle
    /\ PipeIdle
    /\ ClipIdle
    /\ DetIdle
    /\ FilterIdle

SamplingFrame ==
    UNCHANGED << mergerVars, pairVars, pipeVars, clipVars, detVars, filterVars,
                 ww, wk, sd, rc, xc, hk >>

FsAt(at) == fs # << >> /\ fs.pc = at

\* detector.py:180-204: ok, frame = cap.read(); a failed read ends the
\* iteration.
fs_L180 ==
    /\ FsAt("fs_L180") /\ fs.reads < MaxFrames
    /\ \E ok \in BOOLEAN, moving \in BOOLEAN :
          fs' = [fs EXCEPT !.reads = @ + 1,
                           !.last = [NoFrame EXCEPT !.ok = ok,
                                                    !.moving = ok /\ moving],
                           !.pc = IF ok THEN "fs_L212" ELSE "fs_L180"]
    /\ SamplingFrame

\* detector.py:212-214 with the stride tested before the frame is counted
\* (mutation of fs_L212).
fs_L212TestFirst ==
    /\ FsAt("fs_L212")
    /\ LET skip == fs.cfg.stride > 1 /\ (fs.i % fs.cfg.stride) # 0
       IN  fs' = [fs EXCEPT !.i = @ + 1,
                            !.last.idx = fs.i + 1,
                            !.last.strided = ~skip,
                            !.passed = IF skip THEN @ ELSE @ + 1,
                            !.pc = IF skip THEN "fs_L180" ELSE "fs_L216"]
    /\ SamplingFrame

\* detector.py:212-214: i += 1;
\* if self.frame_stride > 1 and (i % self.frame_stride): continue
fs_L212 ==
    /\ FsAt("fs_L212")
    /\ LET i == fs.i + 1
           skip == fs.cfg.stride > 1 /\ (i % fs.cfg.stride) # 0
       IN  fs' = [fs EXCEPT !.i = i,
                            !.last.idx = i,
                            !.last.strided = ~skip,
                            !.passed = IF skip THEN @ ELSE @ + 1,
                            !.pc = IF skip THEN "fs_L180" ELSE "fs_L216"]
    /\ SamplingFrame

\* detector.py:216-217:
\* if motion_gate is not None and not motion_gate.is_motion(frame): continue
fs_L216 ==
    /\ FsAt("fs_L216")
    /\ fs' = IF fs.cfg.gate
             THEN [fs EXCEPT !.last.gate_asked = TRUE,
                             !.pc = IF fs.last.moving THEN "fs_L223"
                                                      ELSE "fs_L180"]
             ELSE [fs EXCEPT !.pc = "fs_L223"]
    /\ SamplingFrame

\* detector.py:219-241: results = self.model(frame, ...); the boxes that
\* pass the filters are left to yield.
fs_L223 ==
    /\ FsAt("fs_L223")
    /\ \E boxes \in 0..MaxBoxes :
          fs' = [fs EXCEPT !.last.classified = TRUE,
                           !.last.boxes = boxes,
                           !.pc = IF boxes > 0 THEN "fs_L242" ELSE "fs_L180"]
    /\ SamplingFrame

\* detector.py:242-247: yield {...}; the consumer asks for the next one.
fs_L242 ==
    /\ FsAt("fs_L242")
    /\ fs' = [fs EXCEPT !.last.yielded = @ + 1,
                        !.pc = IF fs.last.yielded + 1 < fs.last.boxes
                               THEN "fs_L242" ELSE "fs_L180"]
    /\ SamplingFrame

NextSampling ==
    \/ fs_L180
    \/ fs_L212
    \/ fs_L216
    \/ fs_L223
    \/ fs_L242

SpecSampling == InitSampling /\ [][NextSampling]_vars

\* ---------------------------------------------------- SpecSampling: claims
\* The stride lets the frame of index idx through.
StrideLets(idx) == fs.cfg.stride <= 1 \/ idx % fs.cfg.stride = 0

\* The iteration for the frame in hand is over.
FrameOver == fs.pc = "fs_L180" /\ fs.reads > 0

\* C33: the classifier is run on a frame iff the frame was read, its index
\* among the frames read is a multiple of the stride (any index when the
\* stride is 1 or less) and the motion gate, when there is one, reports
\* motion; of the frames read, one in every `stride` has passed the stride;
\* the gate is asked only about frames the stride let through; detections
\* are yielded only for a frame the classifier was run on.
C33_ClassifierGated ==
    LET f == fs.last
    IN  /\ f.classified =>
              f.ok /\ StrideLets(f.idx) /\ (fs.cfg.gate => f.moving)
        /\ (FrameOver \/ fs.pc = "fs_L242") =>
              (f.classified <=>
                  f.ok /\ StrideLets(f.idx) /\ (fs.cfg.gate => f.moving))
        /\ f.gate_asked => f.ok /\ StrideLets(f.idx) /\ fs.cfg.gate
        /\ f.yielded > 0 => f.classified
        /\ fs.pc \in {"fs_L180", "fs_L216"} =>
              fs.passed = IF fs.cfg.stride > 1 THEN fs.i \div fs.cfg.stride
                                               ELSE fs.i

\* C33 witness: with a stride of 3 and a motion gate, the third frame read
\* successfully, after a failed read, was classified and a detection was
\* yielded for it.
C33_Witness ==
    /\ fs.cfg.stride = 3 /\ fs.cfg.gate
    /\ fs.last.idx = 3 /\ fs.reads > 3
    /\ fs.last.gate_asked /\ fs.last.classified /\ fs.last.yielded > 0

\* -------------------- SpecHousekeeping: the housekeeping of the primary loop
\* The head of the primary loop's body (main.py:350-370): a detection comes
\* out of detector.stream_detect, the blackout check, then the periodic
\* housekeeping, run by the primary thread itself when
\* now - last_hk >= HK_INTERVAL_SEC.  No other thread calls the purge
\* functions.  process_emitted, in the ticker thread, arms the blackout
\* (main.py:237, 241).  Time is in seconds; run() is started at HkStart,
\* when, as with time.time() and last_hk = 0.0 (main.py:135), a
\* housekeeping is due.  `ran` is the set of times housekeeping was run at.
HkInterval == 3
HkSilence == 3
HkStart == 3

InitHousekeeping ==
    /\ hk = [pc |-> "h_L350", clock |-> HkStart, now |-> 0, last_hk |-> 0,
             next_armed_ts |-> 0, ran |-> {}]
    /\ ww = << >> /\ wk = << >> /\ sd = << >> /\ rc = << >> /\ xc = << >>
    /\ fs = << >>
    /\ MergerIdle
    /\ PairIdle
    /\ PipeIdle
    /\ ClipIdle
    /\ DetIdle
    /\ FilterIdle

HousekeepingFrame ==
    UNCHANGED << mergerVars, pairVars, pipeVars, clipVars, detVars, filterVars,
                 ww, wk, sd, rc, xc, fs >>

HkAt(at) == hk # << >> /\ hk.pc = at

\* time.time() advances.
HTick ==
    /\ hk # << >> /\ hk.clock < MaxHkClock
    /\ hk' = [hk EXCEPT !.clock = @ + 1]
    /\ HousekeepingFrame

\* main.py:237, 241: process_emitted arms the blackout, short or full.
HArm ==
    /\ hk # << >>
    /\ \E silence \in {Min2(HkSilence, 2), HkSilence} :
          hk' = [hk EXCEPT !.next_armed_ts = hk.clock + silence]
    /\ HousekeepingFrame

\* main.py:350-351: the detector yields a detection; now = time.time()
h_L350 ==
    /\ HkAt("h_L350")
    /\ hk' = [hk EXCEPT !.pc = "h_L352", !.now = hk.clock]
    /\ HousekeepingFrame

\* main.py:352-353: if now < next_armed_ts: continue
h_L352 ==
    /\ HkAt("h_L352")
    /\ hk' = [hk EXCEPT !.pc = IF hk.now < hk.next_armed_ts
                               THEN "h_L350" ELSE "h_L356"]
    /\ HousekeepingFrame

\* main.py:356-370: if now - last_hk >= HK_INTERVAL_SEC: the purges;
\* last_hk = now.  The rest of the body (main.py:372-397) follows.
h_L356 ==
    /\ HkAt("h_L356")
    /\ hk' = IF hk.now - hk.last_hk >= HkInterval
             THEN [hk EXCEPT !.last_hk = hk.now, !.ran = @ \cup {hk.now},
                             !.pc = "h_L350"]
             ELSE [hk EXCEPT !.pc = "h_L350"]
    /\ HousekeepingFrame

\* The steps the primary thread takes by itself once it has a detection.
HkMainStep ==
    \/ h_L352
    \/ h_L356

NextHousekeeping ==
    \/ HTick
    \/ HArm
    \/ h_L350
    \/ h_L352
    \/ h_L356

\* Time goes on and the primary thread keeps running; whether a detection
\* arrives is up to the scene.
SpecHousekeeping ==
    InitHousekeeping /\ [][NextHousekeeping]_vars
        /\ WF_vars(HTick) /\ WF_vars(HkMainStep)

\* ------------------------------------------------ SpecHousekeeping: claims
\* The housekeeping interval has elapsed since the last run.
HkDue == hk.clock - hk.last_hk >= HkInterval

\* C34 (as claimed): once the housekeeping interval has elapsed since the
\* last run, housekeeping eventually runs, whether or not detections arrive
\* or pass the blackout; and two runs are at least an interval apart.
C34_HousekeepingRuns ==
    /\ \A at \in 0..MaxHkClock :
          (HkDue /\ hk.last_hk = at) ~> (hk.last_hk > at)
    /\ [](\A a, b \in hk.ran : a < b => b - a >= HkInterval)

\* ------------------------------------------------ Spec: claims, concurrency
\* The statements of flush_due after the gap test has found the event due.
FlushDuePcs ==
    {"flush_L72", "flush_L73", "top_L19", "top_L21", "top_L22", "flush_L76",
     "flush_L78"}

C36_PushSafeUnderTicker ==
    /\ [][pc["main"] = "push_L59" => raised' = raised]_vars
    /\ [][(pc["main"] = "add_L16" /\ pc'["main"] = "flush_L67") =>
              emitN[loc["main"].ref] = 0]_vars

\* C37 (as claimed): in every state of the pipeline, an event that is in
\* the merger's slot started at or after the merger's cooldown_until.
C37_NoStartInCooldown ==
    (mActive # 0 /\ mActive <= Len(heap)) =>
        heap[mActive].start_ts >= mCooldownUntil

\* ---------------------------------------------------------- SpecBlackout
\* run() with MERGE_WINDOW_SECONDS=1 and POST_EVENT_SILENCE_SEC=4 (the full
\* blackout is longer than the short one of min(4, 2) = 2 seconds), the
\* other settings as in PipeCfg.
PipeCfgBlackout ==
    [PipeCfg EXCEPT !.idle_end = 1, !.post_event_silence = 4]

\* run() at time 2, both threads at the head of their loops, after the
\* primary loop has pushed two detections, stamped 1 and 2, into the event
\* that is open; nDet counts the detections yielded from here on.
InitBlackout ==
    /\ pcfg = PipeCfgBlackout
    /\ clock = 2
    /\ heap = << add(add(NewActiveEvent(1), "person", 1), "person", 2) >>
    /\ mActive = 1
    /\ mCooldownUntil = 0
    /\ next_armed_ts = 0
    /\ recent = [c \in PipeClasses |-> << 2 >>]
    /\ stop_flush = FALSE
    /\ pc = [t \in Threads |-> LoopHead(t)]
    /\ loc = [t \in Threads |-> NoLocals]
    /\ raised = ""
    /\ nDet = 0
    /\ emitN = << 0 >>
    /\ procN = << 0 >>
    /\ handled = [t \in Threads |-> NoCall]
    /\ MergerIdle
    /\ PairIdle
    /\ RestIdle

SpecBlackout == InitBlackout /\ [][Next]_vars

\* C38 (as claimed): with idle_end > 0, cooldown > 0 and a blackout of
\* zero or more seconds, no write replaces next_armed_ts by a smaller
\* value.
C38_BlackoutNeverDecreases ==
    /\ [](pcfg.idle_end > 0 /\ pcfg.cooldown > 0 /\ pcfg.post_event_silence >= 0)
    /\ [][next_armed_ts' >= next_armed_ts]_vars

\* ------------------------- SpecClipRequest: the clip process_emitted asks for
\* process_emitted computes the clip window of an event at time `now`
\* (main.py:244-250) and calls rb.make_clip(t0, t1, clip_full) (main.py:258)
\* on the buffer the recorder has been filling since time 0: ffmpeg's segment
\* muxer starts a file every `seg` seconds, named by its start second, and
\* the file started last is the one being written.  SEGMENT_SECONDS is 1 or
\* 2 (the default), CLIP_SAFETY_LAG is 1 or 2 seconds (the default is 1.5),
\* PRE_ROLL and POST_ROLL are PipeCfg's.
ClipRequestConfigs == [seg : {1, SegmentSecondsDefault}, lag : {1, 2}]

\* The files in the buffer directory at time `now`.
RecordedBy(now, seg) == { ts \in 0..now : ts % seg = 0 }

InitClipRequest ==
    /\ \E cfg \in ClipRequestConfigs, now \in 0..MaxReqTs,
          t_first \in 0..MaxReqTs, t_last \in 0..MaxReqTs :
          LET t0 == Max2(0, t_first - PipeCfg.pre_roll)
              t1 == Min2(t_last + PipeCfg.post_roll, now - cfg.lag)
          IN  /\ t_first <= t_last /\ t_last <= now
              /\ t1 > t0
              /\ mc = [pc |-> "mc_L40", buffer |-> RecordedBy(now, cfg.seg),
                       seg |-> cfg.seg, t0 |-> t0, t1 |-> t1,
                       segs |-> << >>, selected |-> << >>,
                       copy |-> "none", reenc |-> "none", result |-> "",
                       now |-> now, lag |-> cfg.lag]
    /\ MergerIdle
    /\ PairIdle
    /\ PipeIdle
    /\ DetIdle
    /\ FilterIdle
    /\ LateIdle

SpecClipRequest == InitClipRequest /\ [][NextClip]_vars

\* C39 (as claimed): every segment make_clip selects for a window computed
\* by process_emitted has finished recording when the clip is requested:
\* its start plus the segment duration is at most `now`.
C39_SelectedSegmentsFinished ==
    mc # << >> =>
        \A i \in 1..Len(mc.selected) : mc.selected[i] + mc.seg <= mc.now

====
